---- MODULE Spec2Model ----
(***************************************************************************)
(* Model of the spaced-repetition scheduler plugin: the SM-2 scheduler,    *)
(* the ReviewSessionManager state machine, and the plugin code that drives *)
(* and persists it.                                                        *)
(*                                                                         *)
(* Time is counted in ticks; TicksPerDay ticks make one calendar day.  A   *)
(* Date is a tick instant.  The local calendar day of an instant depends   *)
(* on the time-zone offset tz, the UTC day (toISOString) does not.         *)
(* Ease factors are kept in hundredths (2.5 is 250).                       *)
(***************************************************************************)
EXTENDS Integers, Sequences, FiniteSets, TLC

\* ------------------------------------------------------------------ bounds
NumNotes == 2
NumClusters == 2
MaxTime == 2
TicksPerDay == 2
dailyLimit == 1
newCardsPerDay == 1
MaxRepetition == 3

Notes == 1..NumNotes
ClusterIds == 1..NumClusters
TZs == {-1, 0, 1}
\* SM2Quality: the ratings 0 .. 5.
Qualities == 0..5
\* The ratings given in the review modal: a failure and a success.
ModalQualities == {2, 4}
\* The ease factors and intervals (in days) a scheduled card starts from.
EaseFactors == {130, 140, 150, 236, 250, 260}
Intervals == {0, 1, 6, 15}

\* ----------------------------------------------------------- program data
\* '1970-01-01', the default of a cluster without a clusterLastReviewed entry:
\* a day before every day of the model.
Epoch1970 == -1
\* new Date('9999-12-31'): the far-future nextReview of a card not yet introduced.
FarFuture == 9999
\* convertToNoteClusters' default minClusterSize.
minClusterSize == 3

VARIABLES
  now,          \* the clock: the current instant, in ticks
  tz,           \* the time-zone offset of the machine, in ticks
  cards,        \* the repository cache: the cards in Map insertion order
  sessionData,  \* ReviewSessionManager.sessionData
  call,         \* the last operation and its arguments
  ret,          \* what the last operation returned (a list of note ids)
  disk,         \* data.json: the settings keys and the session-data key
  settings,     \* the plugin's settings object in memory
  modal,        \* the ReviewModal: its cards and currentIndex, the ratings
                \* given in it and the rating handlers still in flight
  introducedAt, \* for each note, the instant introduceNewCard introduced it
  embeddings,   \* the notes handed to cluster: their vectors, by position
  options,      \* the ClusteringOptions handed to cluster
  grouping      \* what cluster did: nothing yet, or its outcome

pluginVars == <<disk, settings, modal, introducedAt>>
clusterVars == <<embeddings, options, grouping>>
vars == <<now, tz, cards, sessionData, call, ret, disk, settings, modal,
          introducedAt, embeddings, options, grouping>>

\* ------------------------------------------------------- array primitives
Min(a, b) == IF a < b THEN a ELSE b
Max(a, b) == IF a > b THEN a ELSE b

\* Array.prototype.includes / Set.prototype.has
Includes(s, x) == \E i \in 1..Len(s) : s[i] = x

\* Array.prototype.slice(0, n): for n < 0 the end counts from the back.
Slice0(s, n) ==
  IF n >= 0 THEN SubSeq(s, 1, Min(n, Len(s)))
  ELSE SubSeq(s, 1, Max(0, Len(s) + n))

\* Array.prototype.sort with a consistent comparator is stable: an element
\* goes after every element that sorts before it and after the earlier
\* elements that compare equal to it.  before[i][j] tells whether the
\* comparator puts s[i] before s[j].
StableSort(s, before) ==
  LET rank(i) == 1 + Cardinality({j \in 1..Len(s) :
                       before[j][i] \/ (~before[i][j] /\ j < i)})
  IN [k \in 1..Len(s) |-> s[CHOOSE i \in 1..Len(s) : rank(i) = k]]

\* The ids of a list of cards (cards.map(c => c.noteId)).
NoteIdsOf(cs) == [i \in 1..Len(cs) |-> cs[i].noteId]

\* The elements of a set of numbers as an ascending list.
RECURSIVE SetToSeq(_)
SetToSeq(S) ==
  IF S = {} THEN <<>>
  ELSE LET m == CHOOSE x \in S : \A y \in S : x <= y
       IN <<m>> \o SetToSeq(S \ {m})

\* ------------------------------------------------------------------ dates
\* Date.prototype.toISOString().split('T')[0]: the UTC calendar day.
UtcDay(t) == t \div TicksPerDay
\* getFullYear/getMonth/getDate: the local calendar day.
LocalDay(t) == (t + tz) \div TicksPerDay

getTodayString(t) == UtcDay(t)

\* new Date(y, m, d, 23, 59, 59) of the local today: the last instant of the
\* local calendar day.
TodayEnd(t) == (LocalDay(t) + 1) * TicksPerDay - 1 - tz

\* ---------------------------------------------------------- SM2Scheduler
\* addDays that moves the instant by the smallest unit of time.
addDays_Instants(t, days) == t + days

\* addDays: setDate(getDate() + days) moves the calendar day and keeps the
\* time of day.
addDays(t, days) == t + days * TicksPerDay

\* Math.round of interval * easeFactor, the ease factor in hundredths.
RoundedProduct(interval, easeFactor) == (interval * easeFactor + 50) \div 100

\* calculateNext that lets the ease factor fall below 1.3 on a failure.
calculateNext_NoFloor(card, quality, t) ==
  IF quality < 3
  THEN [repetition |-> 0,
        interval |-> 1,
        easeFactor |-> card.easeFactor - 20,
        nextReview |-> addDays(t, 1)]
  ELSE LET newInterval == IF card.repetition = 0 THEN 1
                          ELSE IF card.repetition = 1 THEN 6
                          ELSE RoundedProduct(card.interval, card.easeFactor)
           newEF == card.easeFactor
                      + (10 - (5 - quality) * (8 + (5 - quality) * 2))
       IN [repetition |-> card.repetition + 1,
           interval |-> newInterval,
           easeFactor |-> Max(130, newEF),
           nextReview |-> addDays(t, newInterval)]

\* startOfDay: local midnight of the day of t (setHours(0, 0, 0, 0)).
startOfDay(t) == LocalDay(t) * TicksPerDay - tz

\* getDueCards: the cards whose day of review is the day of date or earlier.
getDueCards(cs, date) ==
  SelectSeq(cs, LAMBDA c : startOfDay(c.nextReview) <= startOfDay(date))

\* getOverdueCards that takes the day of date itself as the limit.
getOverdueCards_SinceToday(cs, date) ==
  SelectSeq(cs, LAMBDA c : startOfDay(c.nextReview) < startOfDay(date))

\* getOverdueCards: the cards whose day of review is before yesterday.
getOverdueCards(cs, date) ==
  SelectSeq(cs, LAMBDA c :
    startOfDay(c.nextReview) < addDays(startOfDay(date), -1))

\* optimizeReviewOrder: a sorted copy; cards whose review instant is before
\* the present instant t first, then the lower retention level, then the lower
\* ease factor.
optimizeReviewOrder(cs, t) ==
  LET Before(a, b) ==
        LET aOverdue == a.nextReview < t
            bOverdue == b.nextReview < t
        IN IF aOverdue /\ ~bOverdue THEN TRUE
           ELSE IF ~aOverdue /\ bOverdue THEN FALSE
           ELSE IF a.retentionLevel # b.retentionLevel
                THEN a.retentionLevel < b.retentionLevel
           ELSE a.easeFactor < b.easeFactor
  IN StableSort(cs, [i \in 1..Len(cs) |->
                      [j \in 1..Len(cs) |-> Before(cs[i], cs[j])]])

\* calculateNext that floors the ease factor on a failure only.
calculateNext_NoFloorOnSuccess(card, quality, t) ==
  IF quality < 3
  THEN [repetition |-> 0,
        interval |-> 1,
        easeFactor |-> Max(130, card.easeFactor - 20),
        nextReview |-> addDays(t, 1)]
  ELSE LET newInterval == IF card.repetition = 0 THEN 1
                          ELSE IF card.repetition = 1 THEN 6
                          ELSE RoundedProduct(card.interval, card.easeFactor)
           newEF == card.easeFactor
                      + (10 - (5 - quality) * (8 + (5 - quality) * 2))
       IN [repetition |-> card.repetition + 1,
           interval |-> newInterval,
           easeFactor |-> newEF,
           nextReview |-> addDays(t, newInterval)]

\* calculateNext that multiplies the interval by the new ease factor.
calculateNext_RoundsWithNewEase(card, quality, t) ==
  IF quality < 3
  THEN [repetition |-> 0,
        interval |-> 1,
        easeFactor |-> Max(130, card.easeFactor - 20),
        nextReview |-> addDays(t, 1)]
  ELSE LET newEF == card.easeFactor
                      + (10 - (5 - quality) * (8 + (5 - quality) * 2))
           newInterval == IF card.repetition = 0 THEN 1
                          ELSE IF card.repetition = 1 THEN 6
                          ELSE RoundedProduct(card.interval, Max(130, newEF))
       IN [repetition |-> card.repetition + 1,
           interval |-> newInterval,
           easeFactor |-> Max(130, newEF),
           nextReview |-> addDays(t, newInterval)]

\* calculateNext that keeps the interval from the third success on.
calculateNext_KeepsInterval(card, quality, t) ==
  IF quality < 3
  THEN [repetition |-> 0,
        interval |-> 1,
        easeFactor |-> Max(130, card.easeFactor - 20),
        nextReview |-> addDays(t, 1)]
  ELSE LET newInterval == IF card.repetition = 0 THEN 1
                          ELSE IF card.repetition = 1 THEN 6
                          ELSE card.interval
           newEF == card.easeFactor
                      + (10 - (5 - quality) * (8 + (5 - quality) * 2))
       IN [repetition |-> card.repetition + 1,
           interval |-> newInterval,
           easeFactor |-> Max(130, newEF),
           nextReview |-> addDays(t, newInterval)]

\* calculateNext: the SM2State after rating the card with quality at instant t.
calculateNext(card, quality, t) ==
  IF quality < 3
  THEN [repetition |-> 0,
        interval |-> 1,
        easeFactor |-> Max(130, card.easeFactor - 20),
        nextReview |-> addDays(t, 1)]
  ELSE LET newInterval == IF card.repetition = 0 THEN 1
                          ELSE IF card.repetition = 1 THEN 6
                          ELSE RoundedProduct(card.interval, card.easeFactor)
           newEF == card.easeFactor
                      + (10 - (5 - quality) * (8 + (5 - quality) * 2))
       IN [repetition |-> card.repetition + 1,
           interval |-> newInterval,
           easeFactor |-> Max(130, newEF),
           nextReview |-> addDays(t, newInterval)]

\* card.sm2State = newState
WithSM2State(card, st) ==
  [card EXCEPT !.repetition = st.repetition,
               !.interval = st.interval,
               !.easeFactor = st.easeFactor,
               !.nextReview = st.nextReview]

\* The sum of a list of numbers.
RECURSIVE SumSeq(_)
SumSeq(s) == IF s = <<>> THEN 0 ELSE Head(s) + SumSeq(Tail(s))

\* Array.prototype.slice(-n): the last n elements.
LastN(s, n) == SubSeq(s, Max(1, Len(s) - n + 1), Len(s))

\* estimateRetentionLevel that averages the whole history.
estimateRetentionLevel_WholeHistory(card) ==
  LET sum == SumSeq(card.history)
      len == Len(card.history)
  IN IF Len(card.history) = 0 THEN 0
     ELSE IF card.repetition >= 5 /\ card.easeFactor >= 230
             /\ card.interval >= 30 /\ sum >= 4 * len THEN 4
     ELSE IF card.repetition >= 4 /\ card.easeFactor >= 200
             /\ card.interval >= 14 /\ 2 * sum >= 7 * len THEN 3
     ELSE IF card.repetition >= 2 /\ card.easeFactor >= 180
             /\ sum >= 3 * len THEN 2
     ELSE IF card.repetition >= 1 \/ Len(card.history) >= 2 THEN 1
     ELSE 0

\* estimateRetentionLevel: 0 novice, 1 learning, 2 intermediate, 3 advanced,
\* 4 mastered.  avgQuality >= a is sum >= a * length.
estimateRetentionLevel(card) ==
  LET recentReviews == LastN(card.history, 5)
      sum == SumSeq(recentReviews)
      len == Len(recentReviews)
  IN IF Len(card.history) = 0 THEN 0
     ELSE IF card.repetition >= 5 /\ card.easeFactor >= 230
             /\ card.interval >= 30 /\ sum >= 4 * len THEN 4
     ELSE IF card.repetition >= 4 /\ card.easeFactor >= 200
             /\ card.interval >= 14 /\ 2 * sum >= 7 * len THEN 3
     ELSE IF card.repetition >= 2 /\ card.easeFactor >= 180
             /\ sum >= 3 * len THEN 2
     ELSE IF card.repetition >= 1 \/ Len(card.history) >= 2 THEN 1
     ELSE 0

\* The options before any call of cluster.
NoOptions == [threshold |-> 0, maxGroupSize |-> 0]

\* ------------------------------------------------- ReviewSessionManager
\* A FocusSession is a record; id, clusterLabel and startedAt are left out:
\* they are set when the session starts (startedAt and lastActiveAt to the
\* same instant) and nothing reads or changes them afterwards.  "No session" (null) is the empty list, a session s is <<s>>.
NoSession == <<>>
NoEntries == [c \in {} |-> 0]

HasSession(sd) == sd.currentSession # NoSession
Session(sd) == sd.currentSession[1]

\* A constructor that resets only the date on rollover.
constructor_KeepsCounts(persisted, t) ==
  LET today == getTodayString(t) IN
  IF persisted # <<>>
  THEN [persisted[1] EXCEPT !.lastActiveDate = today]
  ELSE [currentSession |-> NoSession,
        lastActiveDate |-> today,
        reviewedTodayIds |-> <<>>,
        newCardsIntroducedIds |-> <<>>,
        clusterLastReviewed |-> NoEntries]

\* constructor: day rollover on load.  persisted is <<>> (null) or <<data>>.
constructor(persisted, t) ==
  LET today == getTodayString(t) IN
  IF persisted # <<>> /\ persisted[1].lastActiveDate = today
  THEN persisted[1]
  ELSE [currentSession |-> IF persisted # <<>> THEN persisted[1].currentSession
                           ELSE NoSession,
        lastActiveDate |-> today,
        reviewedTodayIds |-> <<>>,
        newCardsIntroducedIds |-> <<>>,
        clusterLastReviewed |-> IF persisted # <<>>
                                THEN persisted[1].clusterLastReviewed
                                ELSE NoEntries]

\* getSessionNotes that returns every due card.
getSessionNotes_AllDue(sd, dueCards) ==
  IF ~HasSession(sd) THEN <<>> ELSE dueCards

\* getSessionNotes with the membership test inverted.
getSessionNotes_Inverted(sd, dueCards) ==
  IF ~HasSession(sd) THEN <<>>
  ELSE SelectSeq(dueCards,
                 LAMBDA c : ~Includes(Session(sd).remainingNoteIds, c.noteId))

getSessionNotes(sd, dueCards) ==
  IF ~HasSession(sd) THEN <<>>
  ELSE SelectSeq(dueCards,
                 LAMBDA c : Includes(Session(sd).remainingNoteIds, c.noteId))

\* completeCurrentSession that does not record the day of the review.
completeCurrentSession_NoRecord(sd, t) ==
  IF HasSession(sd) THEN [sd EXCEPT !.currentSession = NoSession] ELSE sd

completeCurrentSession(sd, t) ==
  IF HasSession(sd)
  THEN [sd EXCEPT
          !.clusterLastReviewed =
             (Session(sd).clusterId :> getTodayString(t)) @@ sd.clusterLastReviewed,
          !.currentSession = NoSession]
  ELSE sd

\* startSessionForCluster that takes every due id as remaining.
startSessionForCluster_AllDue(sd, cluster, dueNoteIds, t) ==
  [sd EXCEPT !.currentSession =
     <<[clusterId |-> cluster.id,
        noteIds |-> cluster.noteIds,
        remainingNoteIds |-> dueNoteIds,
        reviewedTodayIds |-> <<>>,
        lastActiveAt |-> t,
        status |-> "active"]>>]

startSessionForCluster(sd, cluster, dueNoteIds, t) ==
  [sd EXCEPT !.currentSession =
     <<[clusterId |-> cluster.id,
        noteIds |-> cluster.noteIds,
        remainingNoteIds |->
          SelectSeq(dueNoteIds, LAMBDA id : Includes(cluster.noteIds, id)),
        reviewedTodayIds |-> <<>>,
        lastActiveAt |-> t,
        status |-> "active"]>>]

pauseCurrentSession(sd) ==
  IF HasSession(sd)
  THEN [sd EXCEPT !.currentSession = <<[Session(sd) EXCEPT !.status = "paused"]>>]
  ELSE sd

\* new Set(ids) keeps the first occurrence of each id, in order.
Dedup(s) ==
  LET keep == {i \in 1..Len(s) : \A j \in 1..(i - 1) : s[j] # s[i]}
      idx == SetToSeq(keep)
  IN [k \in 1..Len(idx) |-> s[idx[k]]]

\* eligibleClusters that orders by the day of the last review only.
eligibleClusters_NoTieBreak(sd, dueCards, clusters) ==
  LET dueNoteIds == NoteIdsOf(dueCards)
      mapped == [i \in 1..Len(clusters) |->
        [cluster |-> clusters[i],
         dueCount |-> Len(SelectSeq(clusters[i].noteIds,
                                    LAMBDA id : Includes(dueNoteIds, id))),
         lastReviewed |-> IF clusters[i].id \in DOMAIN sd.clusterLastReviewed
                          THEN sd.clusterLastReviewed[clusters[i].id]
                          ELSE Epoch1970]]
      withDue == SelectSeq(mapped, LAMBDA e : e.dueCount > 0)
  IN StableSort(withDue,
                [i \in 1..Len(withDue) |->
                   [j \in 1..Len(withDue) |->
                      withDue[i].lastReviewed < withDue[j].lastReviewed]])

\* startNewSession's candidates: the clusters with a due note, the one
\* reviewed longest ago first, then the one with more due notes.
eligibleClusters(sd, dueCards, clusters) ==
  LET dueNoteIds == NoteIdsOf(dueCards)
      entry(cl) ==
        [cluster |-> cl,
         dueCount |-> Len(SelectSeq(cl.noteIds, LAMBDA id : Includes(dueNoteIds, id))),
         lastReviewed |-> IF cl.id \in DOMAIN sd.clusterLastReviewed
                          THEN sd.clusterLastReviewed[cl.id]
                          ELSE Epoch1970]
      mapped == [i \in 1..Len(clusters) |-> entry(clusters[i])]
      Before(a, b) ==
        \/ a.lastReviewed < b.lastReviewed
        \/ a.lastReviewed = b.lastReviewed /\ a.dueCount > b.dueCount
      withDue == SelectSeq(mapped, LAMBDA e : e.dueCount > 0)
  IN StableSort(withDue,
                [i \in 1..Len(withDue) |->
                   [j \in 1..Len(withDue) |-> Before(withDue[i], withDue[j])]])

startNewSession(sd, dueCards, clusters, t) ==
  LET eligible == eligibleClusters(sd, dueCards, clusters) IN
  IF Len(clusters) = 0 \/ Len(eligible) = 0 THEN sd
  ELSE startSessionForCluster(sd, eligible[1].cluster,
                              Dedup(NoteIdsOf(dueCards)), t)

\* sortByPriority that looks at the review instant only.
sortByPriority_InstantOnly(cs) ==
  StableSort(cs, [i \in 1..Len(cs) |->
                   [j \in 1..Len(cs) |-> cs[i].nextReview < cs[j].nextReview]])

sortByPriority(cs) ==
  LET Before(a, b) ==
        \/ a.nextReview < b.nextReview
        \/ a.nextReview = b.nextReview /\ a.easeFactor < b.easeFactor
        \/ a.nextReview = b.nextReview /\ a.easeFactor = b.easeFactor
             /\ a.repetition < b.repetition
  IN StableSort(cs, [i \in 1..Len(cs) |->
                      [j \in 1..Len(cs) |-> Before(cs[i], cs[j])]])

\* The cards of allCards that are due and not yet reviewed today.
dueCardsOf(sd, allCards, t) ==
  SelectSeq(allCards,
            LAMBDA c : ~Includes(sd.reviewedTodayIds, c.noteId)
                       /\ c.nextReview <= TodayEnd(t))

\* The session check without the status.
IsActive_AnyStatus(sd) == HasSession(sd)

IsActive(sd) == HasSession(sd) /\ Session(sd).status = "active"

\* remainingSlots counted one too many.
remainingSlots_OffByOne(sd) == dailyLimit - Len(sd.reviewedTodayIds) + 1

remainingSlots(sd) == dailyLimit - Len(sd.reviewedTodayIds)

\* selectTodayReviewNotes that returns the notes of an active session even
\* when none of them is due.
selectTodayReviewNotes_NoFallThrough(sd, allCards, clusters, t) ==
  LET dueCards == dueCardsOf(sd, allCards, t)
      sessionNotes == getSessionNotes(sd, dueCards)
      newSession == Len(clusters) # 0
                    /\ Len(eligibleClusters(sd, dueCards, clusters)) # 0
      sd2 == startNewSession(sd, dueCards, clusters, t)
  IN IF remainingSlots(sd) <= 0 THEN [sd |-> sd, out |-> <<>>]
     ELSE IF IsActive(sd)
       THEN [sd |-> sd, out |-> Slice0(sessionNotes, remainingSlots(sd))]
     ELSE IF newSession
       THEN [sd |-> sd2,
             out |-> Slice0(getSessionNotes(sd2, dueCards), remainingSlots(sd))]
     ELSE [sd |-> sd, out |-> Slice0(sortByPriority(dueCards), remainingSlots(sd))]

\* selectTodayReviewNotes: [sd |-> the manager's data afterwards,
\*                          out |-> the cards returned].
selectTodayReviewNotes(sd, allCards, clusters, t) ==
  LET dueCards == dueCardsOf(sd, allCards, t)
      sessionNotes == getSessionNotes(sd, dueCards)
      sd1 == IF IsActive(sd) THEN completeCurrentSession(sd, t) ELSE sd
      newSession == Len(clusters) # 0
                    /\ Len(eligibleClusters(sd1, dueCards, clusters)) # 0
      sd2 == startNewSession(sd1, dueCards, clusters, t)
  IN IF remainingSlots(sd) <= 0 THEN [sd |-> sd, out |-> <<>>]
     ELSE IF IsActive(sd) /\ Len(sessionNotes) > 0
       THEN [sd |-> sd, out |-> Slice0(sessionNotes, remainingSlots(sd))]
     ELSE IF newSession
       THEN [sd |-> sd2,
             out |-> Slice0(getSessionNotes(sd2, dueCards), remainingSlots(sd))]
     ELSE [sd |-> sd1, out |-> Slice0(sortByPriority(dueCards), remainingSlots(sd))]

\* selectNewCardsToIntroduce that keeps the order of the cards passed in.
selectNewCardsToIntroduce_InputOrder(sd, newCards, clusters) ==
  LET remainingNewSlots == newCardsPerDay - Len(sd.newCardsIntroducedIds)
      candidates ==
        SelectSeq(newCards, LAMBDA c : ~Includes(sd.newCardsIntroducedIds, c.noteId))
  IN IF remainingNewSlots <= 0 THEN <<>>
     ELSE Slice0(candidates, remainingNewSlots)

selectNewCardsToIntroduce(sd, newCards, clusters) ==
  LET remainingNewSlots == newCardsPerDay - Len(sd.newCardsIntroducedIds)
      candidates ==
        SelectSeq(newCards, LAMBDA c : ~Includes(sd.newCardsIntroducedIds, c.noteId))
      found == SelectSeq(clusters, LAMBDA cl : cl.id = Session(sd).clusterId)
      inCluster(c) == Includes(found[1].noteIds, c.noteId)
  IN IF remainingNewSlots <= 0 THEN <<>>
     ELSE IF HasSession(sd) /\ Len(found) > 0
       THEN Slice0(SelectSeq(candidates, inCluster)
                     \o SelectSeq(candidates, LAMBDA c : ~inCluster(c)),
                   remainingNewSlots)
     ELSE Slice0(candidates, remainingNewSlots)

\* The current session as markReviewed leaves it before the completion check.
markedSession(sd, noteId, t) ==
  LET s == Session(sd) IN
  [s EXCEPT
     !.remainingNoteIds = SelectSeq(s.remainingNoteIds, LAMBDA id : id # noteId),
     !.reviewedTodayIds = IF ~Includes(s.reviewedTodayIds, noteId)
                          THEN Append(s.reviewedTodayIds, noteId)
                          ELSE s.reviewedTodayIds,
     !.lastActiveAt = t]

\* markReviewed without the includes() guards.
markReviewed_AlwaysPush(sd, noteId, isNewCard, t) ==
  LET sd1 == [sd EXCEPT
                !.reviewedTodayIds = Append(sd.reviewedTodayIds, noteId),
                !.newCardsIntroducedIds =
                   IF isNewCard THEN Append(sd.newCardsIntroducedIds, noteId)
                   ELSE sd.newCardsIntroducedIds]
  IN IF ~HasSession(sd) THEN sd1
     ELSE LET s1 == markedSession(sd, noteId, t)
              sd2 == [sd1 EXCEPT !.currentSession = <<s1>>]
          IN IF Len(s1.remainingNoteIds) = 0
             THEN completeCurrentSession(sd2, t)
             ELSE sd2

markReviewed(sd, noteId, isNewCard, t) ==
  LET sd1 == [sd EXCEPT
                !.reviewedTodayIds =
                   IF ~Includes(sd.reviewedTodayIds, noteId)
                   THEN Append(sd.reviewedTodayIds, noteId)
                   ELSE sd.reviewedTodayIds,
                !.newCardsIntroducedIds =
                   IF isNewCard /\ ~Includes(sd.newCardsIntroducedIds, noteId)
                   THEN Append(sd.newCardsIntroducedIds, noteId)
                   ELSE sd.newCardsIntroducedIds]
  IN IF ~HasSession(sd) THEN sd1
     ELSE LET s1 == markedSession(sd, noteId, t)
              sd2 == [sd1 EXCEPT !.currentSession = <<s1>>]
          IN IF Len(s1.remainingNoteIds) = 0
             THEN completeCurrentSession(sd2, t)
             ELSE sd2

\* ------------------------------------------- repository, plugin and modal
\* getFullYear() of a nextReview is 9999 for the far-future date only.
IsFarFuture(t) == t >= FarFuture

\* getAllCards: the cache's values in insertion order.
getAllCards(cs) == [k \in 1..NumNotes |-> cs[k]]

getUnintroducedCards(cs) ==
  SelectSeq(getAllCards(cs),
            LAMBDA c : c.repetition = 0 /\ IsFarFuture(c.nextReview))

getDueTodayCount(cs, t) ==
  Len(SelectSeq(getAllCards(cs), LAMBDA c : c.nextReview <= TodayEnd(t)))

\* introduceNewCard: the cache afterwards.
introduceNewCard(cs, noteId, t) ==
  IF cs[noteId].repetition > 0 \/ ~IsFarFuture(cs[noteId].nextReview)
  THEN cs
  ELSE [cs EXCEPT ![noteId].nextReview = t]

\* The card read back from its note: the callout stores nextReview as the
\* UTC date (formatDate), which parses to the start of that UTC day.
toReviewCardFromPath(card) ==
  [card EXCEPT !.nextReview = IF IsFarFuture(@) THEN @
                              ELSE UtcDay(@) * TicksPerDay]

\* initializeCache: a note with a callout is parsed, a note without gets the
\* default card; a card that was never saved has no callout.
initializeCache(cs) ==
  [n \in Notes |-> IF cs[n].repetition = 0 /\ IsFarFuture(cs[n].nextReview)
                   THEN cs[n] ELSE toReviewCardFromPath(cs[n])]

\* convertToNoteClusters that keeps only the groups above minClusterSize.
convertToNoteClusters_AboveMinimum(groups, dueCards) ==
  LET dueNoteIds == NoteIdsOf(dueCards)
      mapped == [i \in 1..Len(groups) |->
        [id |-> groups[i].id, noteIds |-> groups[i].noteIds,
         dueCount |-> Len(SelectSeq(groups[i].noteIds,
                                    LAMBDA id : Includes(dueNoteIds, id))),
         totalCount |-> Len(groups[i].noteIds)]]
  IN SelectSeq(mapped, LAMBDA cl : cl.totalCount > minClusterSize)

\* convertToNoteClusters: the groups of at least minClusterSize notes, with
\* their number of due notes.
convertToNoteClusters(groups, dueCards) ==
  LET dueNoteIds == NoteIdsOf(dueCards)
      cluster(g) ==
        [id |-> g.id, noteIds |-> g.noteIds,
         dueCount |-> Len(SelectSeq(g.noteIds, LAMBDA id : Includes(dueNoteIds, id))),
         totalCount |-> Len(g.noteIds)]
      mapped == [i \in 1..Len(groups) |-> cluster(groups[i])]
  IN SelectSeq(mapped, LAMBDA cl : cl.totalCount >= minClusterSize)

\* introduceNewCard for each card of a list, in order.
RECURSIVE introduceAll(_, _, _)
introduceAll(cs, ids, t) ==
  IF ids = <<>> THEN cs
  ELSE introduceAll(introduceNewCard(cs, Head(ids), t), Tail(ids), t)

\* selectTodayReviewCards: [sd |-> the manager's data afterwards, cards |->
\* the cache afterwards, reviewCards, newCardsToIntroduce |-> the note ids].
selectTodayReviewCards(sd, cs, groups, t) ==
  LET allCards == getAllCards(cs)
      dueCards == SelectSeq(allCards, LAMBDA c : c.nextReview <= TodayEnd(t))
      clusters == convertToNoteClusters(groups, dueCards)
      r == selectTodayReviewNotes(sd, allCards, clusters, t)
      newCardsToIntroduce ==
        NoteIdsOf(selectNewCardsToIntroduce(r.sd, getUnintroducedCards(cs), clusters))
  IN [sd |-> r.sd,
      cards |-> introduceAll(cs, newCardsToIntroduce, t),
      reviewCards |-> NoteIdsOf(r.out),
      newCardsToIntroduce |-> newCardsToIntroduce]

\* loadDueCards: the modal's cards, as note ids: the review cards, then the
\* introduced cards not among them, sorted by retention level.
loadDueCards(sel) ==
  LET added == SelectSeq(sel.newCardsToIntroduce,
                         LAMBDA id : ~Includes(sel.reviewCards, id))
      Before(a, b) == sel.cards[a].retentionLevel < sel.cards[b].retentionLevel
      ids == sel.reviewCards \o added
  IN StableSort(ids, [i \in 1..Len(ids) |->
                       [j \in 1..Len(ids) |-> Before(ids[i], ids[j])]])

\* data.json holds the settings keys and the key 'srs-session-data'; a key is
\* <<>> when absent.  The settings object in memory holds the same keys:
\* migrateSettings spreads every key of the loaded data into it.
NoData == [quizEnabled |-> <<>>, session |-> <<>>]
DEFAULT_SETTINGS == [quizEnabled |-> TRUE, session |-> <<>>]

migrateSettings(data) ==
  [quizEnabled |-> IF data.quizEnabled # <<>> THEN data.quizEnabled[1]
                   ELSE DEFAULT_SETTINGS.quizEnabled,
   session |-> data.session]

\* saveData(this.settings)
saveSettings(st) == [quizEnabled |-> <<st.quizEnabled>>, session |-> st.session]

\* saveSessionData: data[SESSION_DATA_KEY] = getPersistedData()
saveSessionData(data, sd) == [data EXCEPT !.session = <<sd>>]

loadSessionData(data) == data.session

NoModal ==
  [open |-> FALSE, cards |-> <<>>, currentIndex |-> 0, rated |-> <<>>,
   pending |-> <<>>]

\* ------------------------------------------------------------ the inputs
\* A ReviewCard: noteId, the SM2State fields, retentionLevel (0 novice ..
\* 4 mastered) and the qualities of reviewHistory.
DueCard(n) ==
  [noteId |-> n, repetition |-> 1, interval |-> 1, easeFactor |-> 236,
   nextReview |-> 0, retentionLevel |-> 1, history |-> <<3>>]
LaterCard(n) ==
  [noteId |-> n, repetition |-> 2, interval |-> 6, easeFactor |-> 250,
   nextReview |-> TicksPerDay, retentionLevel |-> 2, history |-> <<4, 4>>]
NewCard(n) ==
  [noteId |-> n, repetition |-> 0, interval |-> 0, easeFactor |-> 250,
   nextReview |-> FarFuture, retentionLevel |-> 0, history |-> <<>>]

\* The lists of cards for the notes of S, in cache order.
CardsOf(S) ==
  LET ids == SetToSeq(S) IN [k \in 1..Len(ids) |-> cards[ids[k]]]

\* The clusters offered to the manager: cluster 1 holds every note, cluster 2
\* all but the last, and so on; a call gets any list of up to two of them.
Catalogue(c) ==
  LET members == SetToSeq({n \in Notes : n <= NumNotes + 1 - c})
  IN [id |-> c, noteIds |-> members, dueCount |-> 0, totalCount |-> Len(members)]
ClusterLists ==
  {<<>>} \cup {<<Catalogue(c)>> : c \in ClusterIds}
         \cup {<<Catalogue(c), Catalogue(d)>> :
                 <<c, d>> \in {p \in ClusterIds \X ClusterIds : p[1] # p[2]}}

NoCall ==
  [op |-> "init", noteId |-> 0, isNewCard |-> FALSE, again |-> FALSE,
   stale |-> FALSE, notes |-> {}, started |-> FALSE, completed |-> <<>>,
   quality |-> 0, before |-> <<>>, clusters |-> <<>>]

\* --------------------------------------------- the manager's operations
Construct ==
  /\ sessionData' = constructor(<<>>, now)
  /\ call' = [NoCall EXCEPT !.op = "construct"]
  /\ ret' = <<>>
  /\ UNCHANGED <<clusterVars, now, tz, cards, pluginVars>>

\* A restart: the data handed out by getPersistedData is loaded by a new manager.
Reload ==
  /\ sessionData' = constructor(<<sessionData>>, now)
  /\ call' = [NoCall EXCEPT
                !.op = "reload",
                !.stale = sessionData.lastActiveDate # getTodayString(now)]
  /\ ret' = <<>>
  /\ UNCHANGED <<clusterVars, now, tz, cards, pluginVars>>

SelectTodayReviewNotes ==
  \E S \in SUBSET Notes, clusters \in ClusterLists :
    LET r == selectTodayReviewNotes(sessionData, CardsOf(S), clusters, now)
        sessionNotes == getSessionNotes(sessionData,
                                        dueCardsOf(sessionData, CardsOf(S), now))
        completes == remainingSlots(sessionData) > 0
                     /\ IsActive(sessionData) /\ Len(sessionNotes) = 0
        starts == HasSession(r.sd) /\ r.sd.currentSession
                                        # sessionData.currentSession
    IN /\ sessionData' = r.sd
       /\ ret' = NoteIdsOf(r.out)
       /\ call' = [NoCall EXCEPT
                     !.op = "selectTodayReviewNotes",
                     !.notes = S,
                     !.clusters = IF starts THEN clusters ELSE <<>>,
                     !.started = starts,
                     !.completed = IF completes THEN sessionData.currentSession
                                   ELSE <<>>]
       /\ UNCHANGED <<clusterVars, now, tz, cards, pluginVars>>

SelectNewCardsToIntroduce ==
  \E S \in SUBSET Notes, clusters \in ClusterLists :
    /\ ret' = NoteIdsOf(selectNewCardsToIntroduce(sessionData, CardsOf(S), clusters))
    /\ call' = [NoCall EXCEPT !.op = "selectNewCardsToIntroduce"]
    /\ UNCHANGED <<clusterVars, now, tz, cards, sessionData, pluginVars>>

MarkReviewed ==
  \E noteId \in Notes, isNewCard \in BOOLEAN :
    LET completes == HasSession(sessionData)
                     /\ Len(markedSession(sessionData, noteId, now).remainingNoteIds) = 0
    IN /\ sessionData' = markReviewed(sessionData, noteId, isNewCard, now)
       /\ call' = [NoCall EXCEPT
                     !.op = "markReviewed",
                     !.noteId = noteId,
                     !.isNewCard = isNewCard,
                     !.again = call.op = "markReviewed" /\ call.noteId = noteId
                               /\ call.isNewCard = isNewCard,
                     !.completed = IF completes
                                   THEN <<markedSession(sessionData, noteId, now)>>
                                   ELSE <<>>]
       /\ ret' = <<>>
       /\ UNCHANGED <<clusterVars, now, tz, cards, pluginVars>>

StartSessionForCluster ==
  \E c \in ClusterIds, D \in SUBSET Notes :
    /\ sessionData' = startSessionForCluster(sessionData, Catalogue(c), SetToSeq(D), now)
    /\ call' = [NoCall EXCEPT !.op = "startSessionForCluster", !.started = TRUE]
    /\ ret' = <<>>
    /\ UNCHANGED <<clusterVars, now, tz, cards, pluginVars>>

PauseCurrentSession ==
  /\ sessionData' = pauseCurrentSession(sessionData)
  /\ call' = [NoCall EXCEPT !.op = "pauseCurrentSession"]
  /\ ret' = <<>>
  /\ UNCHANGED <<clusterVars, now, tz, cards, pluginVars>>

\* Time passes.
Tick ==
  /\ now < MaxTime
  /\ now' = now + 1
  /\ UNCHANGED <<clusterVars, tz, cards, sessionData, call, ret, pluginVars>>

Init ==
  /\ now = 0
  /\ tz = 0
  /\ cards = [n \in Notes |-> IF n = 1 THEN LaterCard(n) ELSE DueCard(n)]
  /\ sessionData = constructor(<<>>, 0)
  /\ call = NoCall
  /\ ret = <<>>
  /\ disk = NoData
  /\ settings = DEFAULT_SETTINGS
  /\ modal = NoModal
  /\ introducedAt = [n \in Notes |-> -1]
  /\ embeddings = <<>>
  /\ options = NoOptions
  /\ grouping = <<>>

Next ==
  \/ Construct
  \/ Reload
  \/ SelectTodayReviewNotes
  \/ SelectNewCardsToIntroduce
  \/ MarkReviewed
  \/ StartSessionForCluster
  \/ PauseCurrentSession
  \/ Tick

Spec == Init /\ [][Next]_vars

\* ------------------------------------------------- the scheduler on its own
\* A card in any SM-2 state, rated once.
ScheduledCard(n, repetition, interval, easeFactor) ==
  [noteId |-> n, repetition |-> repetition, interval |-> interval,
   easeFactor |-> easeFactor, nextReview |-> 0, retentionLevel |-> 1,
   history |-> <<3>>]

CalculateNext ==
  \E noteId \in Notes, quality \in Qualities :
    /\ call.op = "init"
    /\ cards' = [cards EXCEPT
                   ![noteId] = WithSM2State(@, calculateNext(@, quality, now))]
    /\ call' = [NoCall EXCEPT
                  !.op = "calculateNext",
                  !.noteId = noteId,
                  !.quality = quality,
                  !.before = <<cards[noteId]>>]
    /\ UNCHANGED <<clusterVars, now, tz, sessionData, ret, pluginVars>>

InitSched ==
  /\ now \in 0..MaxTime
  /\ tz \in TZs
  /\ \E repetition \in 0..MaxRepetition, interval \in Intervals,
        easeFactor \in EaseFactors :
       cards = [n \in Notes |->
                  ScheduledCard(n, repetition, IF n = 1 THEN interval ELSE 1,
                                IF n = 1 THEN easeFactor ELSE 250)]
  /\ sessionData = constructor(<<>>, now)
  /\ call = NoCall
  /\ ret = <<>>
  /\ disk = NoData
  /\ settings = DEFAULT_SETTINGS
  /\ modal = NoModal
  /\ introducedAt = [n \in Notes |-> -1]
  /\ embeddings = <<>>
  /\ options = NoOptions
  /\ grouping = <<>>

NextSched == CalculateNext

SpecSched == InitSched /\ [][NextSched]_vars

\* --------------------------------------- a card reviewed again and again
\* The ease factor above which the card is no longer rated.
MaxEase == 270

\* createDefaultSM2State: the state of a card that was never reviewed.
createDefaultSM2State(t) ==
  [repetition |-> 0, interval |-> 0, easeFactor |-> 250, nextReview |-> t]

\* The card of note n in its default state.
DefaultCard(n, t) ==
  WithSM2State([noteId |-> n, repetition |-> 0, interval |-> 0,
                easeFactor |-> 0, nextReview |-> 0, retentionLevel |-> 0,
                history |-> <<>>],
               createDefaultSM2State(t))

\* One more rating of the first card, whatever was rated before.
ReviewCard ==
  \E quality \in Qualities :
    /\ cards[1].repetition <= MaxRepetition
    /\ cards[1].easeFactor <= MaxEase
    /\ cards' = [cards EXCEPT
                   ![1] = WithSM2State(@, calculateNext(@, quality, now))]
    /\ call' = [NoCall EXCEPT
                  !.op = "calculateNext",
                  !.noteId = 1,
                  !.quality = quality,
                  !.before = <<cards[1]>>]
    /\ UNCHANGED <<clusterVars, now, tz, sessionData, ret, pluginVars>>

InitDefault ==
  /\ now = 0
  /\ tz = 0
  /\ cards = [n \in Notes |-> DefaultCard(n, now)]
  /\ sessionData = constructor(<<>>, now)
  /\ call = NoCall
  /\ ret = <<>>
  /\ disk = NoData
  /\ settings = DEFAULT_SETTINGS
  /\ modal = NoModal
  /\ introducedAt = [n \in Notes |-> -1]
  /\ embeddings = <<>>
  /\ options = NoOptions
  /\ grouping = <<>>

NextDefault == ReviewCard

SpecDefault == InitDefault /\ [][NextDefault]_vars

\* ------------------------------------------- the scheduler's list queries
\* The instants a card may be due at: from three days back to tomorrow.
ReviewTimes == (0 - 3 * TicksPerDay)..(MaxTime + 1)

\* The retention levels and ease factors of the cards queried.
QueryLevels == {1, 2}
QueryEaseFactors == {130, 250}

\* The orders in which the cards may be handed to the scheduler.
CardLists ==
  {order \in [1..NumNotes -> Notes] :
     \A i, j \in 1..NumNotes : i # j => order[i] # order[j]}

\* The cards in the given order.
ItemsOf(order) == [i \in 1..Len(order) |-> cards[order[i]]]

GetDueCards ==
  \E order \in CardLists :
    /\ call.op = "init"
    /\ ret' = <<getDueCards(ItemsOf(order), now)>>
    /\ call' = [NoCall EXCEPT !.op = "getDueCards", !.before = ItemsOf(order)]
    /\ UNCHANGED <<clusterVars, now, tz, cards, sessionData, pluginVars>>

GetOverdueCards ==
  \E order \in CardLists :
    /\ call.op = "init"
    /\ ret' = <<getOverdueCards(ItemsOf(order), now)>>
    /\ call' = [NoCall EXCEPT !.op = "getOverdueCards",
                              !.before = ItemsOf(order)]
    /\ UNCHANGED <<clusterVars, now, tz, cards, sessionData, pluginVars>>

OptimizeReviewOrder ==
  \E order \in CardLists :
    /\ call.op = "init"
    /\ ret' = <<optimizeReviewOrder(ItemsOf(order), now)>>
    /\ call' = [NoCall EXCEPT !.op = "optimizeReviewOrder",
                              !.before = ItemsOf(order)]
    /\ UNCHANGED <<clusterVars, now, tz, cards, sessionData, pluginVars>>

InitQuery ==
  /\ now \in 0..MaxTime
  /\ tz \in TZs
  /\ \E nextReview \in [Notes -> ReviewTimes],
        retentionLevel \in [Notes -> QueryLevels],
        easeFactor \in [Notes -> QueryEaseFactors] :
       cards = [n \in Notes |->
                  [noteId |-> n, repetition |-> 1, interval |-> 1,
                   easeFactor |-> easeFactor[n],
                   nextReview |-> nextReview[n],
                   retentionLevel |-> retentionLevel[n],
                   history |-> <<3>>]]
  /\ sessionData = constructor(<<>>, now)
  /\ call = NoCall
  /\ ret = <<>>
  /\ disk = NoData
  /\ settings = DEFAULT_SETTINGS
  /\ modal = NoModal
  /\ introducedAt = [n \in Notes |-> -1]
  /\ embeddings = <<>>
  /\ options = NoOptions
  /\ grouping = <<>>

NextQuery == GetDueCards \/ GetOverdueCards \/ OptimizeReviewOrder

SpecQuery == InitQuery /\ [][NextQuery]_vars

\* ------------------------------------------- the retention level of a card
\* The states and the histories (qualities, oldest first) of the card whose
\* level is estimated.
RetentionRepetitions == 0..5
RetentionEaseFactors == {170, 180, 200, 230}
RetentionIntervals == {1, 14, 30}
Histories ==
  {<<>>, <<3>>, <<2, 2>>, <<3, 4>>, <<4, 4>>, <<2, 3, 3, 3>>,
   <<0, 4, 4, 4, 4, 4>>, <<5, 5, 3, 3, 3, 3, 2>>}

EstimateRetentionLevel ==
  /\ call.op = "init"
  /\ cards' = [cards EXCEPT ![1].retentionLevel = estimateRetentionLevel(cards[1])]
  /\ call' = [NoCall EXCEPT !.op = "estimateRetentionLevel",
                            !.noteId = 1,
                            !.before = <<cards[1]>>]
  /\ UNCHANGED <<clusterVars, now, tz, sessionData, ret, pluginVars>>

InitRetention ==
  /\ now = 0
  /\ tz = 0
  /\ \E repetition \in RetentionRepetitions, interval \in RetentionIntervals,
        easeFactor \in RetentionEaseFactors, history \in Histories :
       cards = [n \in Notes |->
                  IF n = 1
                  THEN [noteId |-> n, repetition |-> repetition,
                        interval |-> interval, easeFactor |-> easeFactor,
                        nextReview |-> 0, retentionLevel |-> 0,
                        history |-> history]
                  ELSE DefaultCard(n, now)]
  /\ sessionData = constructor(<<>>, now)
  /\ call = NoCall
  /\ ret = <<>>
  /\ disk = NoData
  /\ settings = DEFAULT_SETTINGS
  /\ modal = NoModal
  /\ introducedAt = [n \in Notes |-> -1]
  /\ embeddings = <<>>
  /\ options = NoOptions
  /\ grouping = <<>>

NextRetention == EstimateRetentionLevel

SpecRetention == InitRetention /\ [][NextRetention]_vars

\* ------------------------------------ CosineSimilarityClusteringService
\* Similarities are counted in units of 1/SimScale: 1.0 is SimScale.  The
\* vectors of the model have integer coordinates and either no length or a
\* squared length of 1 or SimScale, so every similarity is a whole number of
\* units.
SimScale == 65

\* A call that threw, and a call that returned value.
Thrown == [threw |-> TRUE, value |-> 0]
Returned(value) == [threw |-> FALSE, value |-> value]

\* The largest number of a non-empty set of numbers.
SetMax(S) == CHOOSE x \in S : \A y \in S : y <= x

\* Math.sqrt(normA) * Math.sqrt(normB), the root of normA * normB.
NormProduct(normA, normB) ==
  CHOOSE r \in 0..(normA * normB) : r * r = normA * normB

\* cosineSimilarity that throws for a vector without length as well.
cosineSimilarity_ThrowsOnZero(vectorA, vectorB) ==
  IF Len(vectorA) # Len(vectorB) THEN Thrown
  ELSE LET dotProduct == SumSeq([i \in 1..Len(vectorA) |->
                                   vectorA[i] * vectorB[i]])
           normA == SumSeq([i \in 1..Len(vectorA) |-> vectorA[i] * vectorA[i]])
           normB == SumSeq([i \in 1..Len(vectorA) |-> vectorB[i] * vectorB[i]])
       IN IF normA = 0 \/ normB = 0 THEN Thrown
          ELSE Returned((dotProduct * SimScale)
                          \div NormProduct(normA, normB))

\* cosineSimilarity: throws when the dimensions differ; 0 when a norm is 0.
cosineSimilarity(vectorA, vectorB) ==
  IF Len(vectorA) # Len(vectorB) THEN Thrown
  ELSE LET dotProduct == SumSeq([i \in 1..Len(vectorA) |->
                                   vectorA[i] * vectorB[i]])
           normA == SumSeq([i \in 1..Len(vectorA) |-> vectorA[i] * vectorA[i]])
           normB == SumSeq([i \in 1..Len(vectorA) |-> vectorB[i] * vectorB[i]])
       IN IF normA = 0 \/ normB = 0 THEN Returned(0)
          ELSE Returned((dotProduct * SimScale)
                          \div NormProduct(normA, normB))

\* buildSimilarityMatrix: the similarity of every two notes, 1 on the
\* diagonal; throws when cosineSimilarity throws for some pair.
buildSimilarityMatrix(notes) ==
  LET n == Len(notes)
      sim(i, j) == cosineSimilarity(notes[i].vector, notes[j].vector)
  IN IF \E i, j \in 1..n : i < j /\ sim(i, j).threw THEN Thrown
     ELSE Returned([i \in 1..n |->
                      [j \in 1..n |->
                         IF i = j THEN SimScale ELSE sim(i, j).value]])

\* maxLinkSimilarity: the largest similarity between a member of clusterA
\* and a member of clusterB, and -1 when none is above -1.
maxLinkSimilarity(clusterA, clusterB, matrix) ==
  SetMax({0 - SimScale}
         \cup {matrix[clusterA[i]][clusterB[j]] :
                 i \in 1..Len(clusterA), j \in 1..Len(clusterB)})

\* The merge loop that keeps the last of the most similar pairs.
RECURSIVE mergeClusters_LastPair(_, _, _, _, _)
mergeClusters_LastPair(clusters, active, matrix, threshold, maxGroupSize) ==
  LET fitting == {p \in active \X active :
                    /\ p[1] < p[2]
                    /\ Len(clusters[p[1]]) + Len(clusters[p[2]])
                         <= maxGroupSize}
      sim(p) == maxLinkSimilarity(clusters[p[1]], clusters[p[2]], matrix)
      found == {p \in fitting : sim(p) > 0 - SimScale}
      maxSim == SetMax({sim(p) : p \in found})
      best == {p \in found : sim(p) = maxSim}
      merge == CHOOSE p \in best :
                 \A q \in best : \/ p[1] > q[1]
                                 \/ p[1] = q[1] /\ p[2] >= q[2]
  IN IF Cardinality(active) <= 1 THEN [clusters |-> clusters, active |-> active]
     ELSE IF found = {} THEN [clusters |-> clusters, active |-> active]
     ELSE IF maxSim < threshold THEN [clusters |-> clusters, active |-> active]
     ELSE mergeClusters_LastPair(
            [clusters EXCEPT ![merge[1]] = @ \o clusters[merge[2]]],
            active \ {merge[2]}, matrix, threshold, maxGroupSize)

\* The merge loop of hierarchicalClustering.  clusters[i] lists the members
\* of cluster i in insertion order, active holds the clusters still alive;
\* they are scanned in ascending order and the first of the most similar
\* pairs that fit maxGroupSize is merged, as long as it reaches threshold.
RECURSIVE mergeClusters(_, _, _, _, _)
mergeClusters(clusters, active, matrix, threshold, maxGroupSize) ==
  LET fitting == {p \in active \X active :
                    /\ p[1] < p[2]
                    /\ Len(clusters[p[1]]) + Len(clusters[p[2]])
                         <= maxGroupSize}
      sim(p) == maxLinkSimilarity(clusters[p[1]], clusters[p[2]], matrix)
      found == {p \in fitting : sim(p) > 0 - SimScale}
      maxSim == SetMax({sim(p) : p \in found})
      best == {p \in found : sim(p) = maxSim}
      merge == CHOOSE p \in best :
                 \A q \in best : \/ p[1] < q[1]
                                 \/ p[1] = q[1] /\ p[2] <= q[2]
  IN IF Cardinality(active) <= 1 THEN [clusters |-> clusters, active |-> active]
     ELSE IF found = {} THEN [clusters |-> clusters, active |-> active]
     ELSE IF maxSim < threshold THEN [clusters |-> clusters, active |-> active]
     ELSE mergeClusters(
            [clusters EXCEPT ![merge[1]] = @ \o clusters[merge[2]]],
            active \ {merge[2]}, matrix, threshold, maxGroupSize)

\* The lists of a list of lists, one after the other.
RECURSIVE Flatten(_)
Flatten(ss) == IF ss = <<>> THEN <<>> ELSE Head(ss) \o Flatten(Tail(ss))

\* calculateGroupCohesion: the mean of the similarities, as the fraction
\* num / den of units; 0 for no similarities.
calculateGroupCohesion(similarities) ==
  IF Len(similarities) = 0 THEN [num |-> 0, den |-> 1]
  ELSE [num |-> SumSeq(similarities), den |-> Len(similarities)]

\* hierarchicalClustering that lets a merge pass maxGroupSize by one.
hierarchicalClustering_OneTooMany(notes, matrix, threshold, maxGroupSize) ==
  LET merged == mergeClusters([i \in 1..Len(notes) |-> <<i>>],
                              1..Len(notes), matrix, threshold,
                              maxGroupSize + 1)
      groupOf(cluster) ==
        [noteIds |-> [i \in 1..Len(cluster) |-> notes[cluster[i]].noteId],
         cohesion |-> calculateGroupCohesion(Flatten(
           [i \in 1..Len(cluster) |->
              [k \in 1..(Len(cluster) - i) |->
                 matrix[cluster[i]][cluster[i + k]]]]))]
      kept == SelectSeq(SetToSeq(merged.active),
                        LAMBDA c : Len(merged.clusters[c]) >= 2)
  IN [g \in 1..Len(kept) |-> groupOf(merged.clusters[kept[g]])]

\* hierarchicalClustering that also emits the clusters of one note.
hierarchicalClustering_Singletons(notes, matrix, threshold, maxGroupSize) ==
  LET merged == mergeClusters([i \in 1..Len(notes) |-> <<i>>],
                              1..Len(notes), matrix, threshold, maxGroupSize)
      groupOf(cluster) ==
        [noteIds |-> [i \in 1..Len(cluster) |-> notes[cluster[i]].noteId],
         cohesion |-> calculateGroupCohesion(Flatten(
           [i \in 1..Len(cluster) |->
              [k \in 1..(Len(cluster) - i) |->
                 matrix[cluster[i]][cluster[i + k]]]]))]
      kept == SetToSeq(merged.active)
  IN [g \in 1..Len(kept) |-> groupOf(merged.clusters[kept[g]])]

\* hierarchicalClustering: single-link merging, then one group for every
\* cluster of two notes or more, with the mean similarity of its pairs as
\* cohesion.  The id, name, centroid and creation date of a group are left
\* out.
hierarchicalClustering(notes, matrix, threshold, maxGroupSize) ==
  LET merged == mergeClusters([i \in 1..Len(notes) |-> <<i>>],
                              1..Len(notes), matrix, threshold, maxGroupSize)
      groupOf(cluster) ==
        [noteIds |-> [i \in 1..Len(cluster) |-> notes[cluster[i]].noteId],
         cohesion |-> calculateGroupCohesion(Flatten(
           [i \in 1..Len(cluster) |->
              [k \in 1..(Len(cluster) - i) |->
                 matrix[cluster[i]][cluster[i + k]]]]))]
      kept == SelectSeq(SetToSeq(merged.active),
                        LAMBDA c : Len(merged.clusters[c]) >= 2)
  IN [g \in 1..Len(kept) |-> groupOf(merged.clusters[kept[g]])]

\* createEmptyResult: no groups, every note ungrouped.
createEmptyResult(noteIds) ==
  [threw |-> FALSE, groups |-> <<>>, ungroupedNotes |-> noteIds]

\* cluster: the groups and the notes left out of every group; an empty
\* result for fewer than two notes; throws when two vectors differ in
\* dimension.  The metadata of the result is left out.
cluster(notes, opts) ==
  IF Len(notes) < 2
  THEN createEmptyResult([i \in 1..Len(notes) |-> notes[i].noteId])
  ELSE LET similarityMatrix == buildSimilarityMatrix(notes)
           groups == hierarchicalClustering(notes, similarityMatrix.value,
                                            opts.threshold, opts.maxGroupSize)
           groupedNoteIds == UNION {{groups[g].noteIds[i] :
                                       i \in 1..Len(groups[g].noteIds)} :
                                    g \in 1..Len(groups)}
           ungrouped == SelectSeq(notes,
                                  LAMBDA n : n.noteId \notin groupedNoteIds)
       IN IF similarityMatrix.threw
          THEN [threw |-> TRUE, groups |-> <<>>, ungroupedNotes |-> <<>>]
          ELSE [threw |-> FALSE,
                groups |-> groups,
                ungroupedNotes |-> [i \in 1..Len(ungrouped) |->
                                      ungrouped[i].noteId]]

\* ------------------------------------------------------ clustering notes
\* The number of notes handed to cluster at most.
NumVectors == 3

\* The embedding vectors: the zero vector, four vectors of squared length
\* 65 (two of them opposite) and a vector of another dimension.
Vectors ==
  {<<0, 0>>, <<8, 1>>, <<1, 8>>, <<-7, 4>>, <<-8, -1>>, <<1>>}

\* The thresholds, in units of 1/SimScale: -1, -0.4, 0, 0.246, 0.4 and 1.
Thresholds == {0 - SimScale, -26, 0, 16, 26, SimScale}

\* The values of maxGroupSize.
MaxGroupSizes == 1..(NumVectors + 1)

\* The notes with the given vectors; the id of a note is its position.
NotesWithVector(vs) == [i \in 1..Len(vs) |-> [noteId |-> i, vector |-> vs[i]]]

Cluster ==
  /\ grouping = <<>>
  /\ grouping' = <<cluster(NotesWithVector(embeddings), options)>>
  /\ UNCHANGED <<now, tz, cards, sessionData, call, ret, pluginVars,
                 embeddings, options>>

InitCluster ==
  /\ now = 0
  /\ tz = 0
  /\ cards = [n \in Notes |-> DefaultCard(n, now)]
  /\ sessionData = constructor(<<>>, now)
  /\ call = NoCall
  /\ ret = <<>>
  /\ disk = NoData
  /\ settings = DEFAULT_SETTINGS
  /\ modal = NoModal
  /\ introducedAt = [n \in Notes |-> -1]
  /\ \E k \in 0..NumVectors : embeddings \in [1..k -> Vectors]
  /\ \E threshold \in Thresholds, maxGroupSize \in MaxGroupSizes :
       options = [threshold |-> threshold, maxGroupSize |-> maxGroupSize]
  /\ grouping = <<>>

NextCluster == Cluster

SpecCluster == InitCluster /\ [][NextCluster]_vars

\* ------------------------------------------------- the cluster adapter
\* The number of notes the groups handed to the adapter are made of.
NumGroupNotes == 4

\* The member lists of the groups: of two, three and four notes.
GroupMembers ==
  {<<1, 2>>, <<3, 4>>, <<1, 2, 3>>, <<4, 3, 2>>, <<1, 2, 3, 4>>}

\* The lists of groups: up to two groups, the id of a group its position.
GroupLists ==
  {<<>>}
    \cup {<<[id |-> 1, noteIds |-> m]>> : m \in GroupMembers}
    \cup {<<[id |-> 1, noteIds |-> m], [id |-> 2, noteIds |-> n]>> :
            m \in GroupMembers, n \in GroupMembers}

ConvertToNoteClusters ==
  \E groups \in GroupLists, D \in SUBSET (1..NumGroupNotes) :
    /\ call.op = "init"
    /\ ret' = convertToNoteClusters(groups,
                [k \in 1..Len(SetToSeq(D)) |-> DueCard(SetToSeq(D)[k])])
    /\ call' = [NoCall EXCEPT !.op = "convertToNoteClusters",
                              !.clusters = groups,
                              !.notes = D]
    /\ UNCHANGED <<clusterVars, now, tz, cards, sessionData, pluginVars>>

InitAdapter ==
  /\ now = 0
  /\ tz = 0
  /\ cards = [n \in Notes |-> DueCard(n)]
  /\ sessionData = constructor(<<>>, now)
  /\ call = NoCall
  /\ ret = <<>>
  /\ disk = NoData
  /\ settings = DEFAULT_SETTINGS
  /\ modal = NoModal
  /\ introducedAt = [n \in Notes |-> -1]
  /\ embeddings = <<>>
  /\ options = NoOptions
  /\ grouping = <<>>

NextAdapter == ConvertToNoteClusters

SpecAdapter == InitAdapter /\ [][NextAdapter]_vars

\* ------------------------------------ the manager on decks of any cards
\* The instants the cards of a deck may be due at.
DeckTimes == (0 - 1)..MaxTime

\* A manager constructed now is asked for today's notes, for decks whose
\* cards differ in review instant, retention level and ease factor.
InitDeck ==
  /\ now = MaxTime
  /\ tz = 0
  /\ \E nextReview \in [Notes -> DeckTimes],
        retentionLevel \in [Notes -> QueryLevels],
        easeFactor \in [Notes -> QueryEaseFactors] :
       cards = [n \in Notes |->
                  [noteId |-> n, repetition |-> 1, interval |-> 1,
                   easeFactor |-> easeFactor[n],
                   nextReview |-> nextReview[n],
                   retentionLevel |-> retentionLevel[n],
                   history |-> <<3>>]]
  /\ sessionData = constructor(<<>>, now)
  /\ call = NoCall
  /\ ret = <<>>
  /\ disk = NoData
  /\ settings = DEFAULT_SETTINGS
  /\ modal = NoModal
  /\ introducedAt = [n \in Notes |-> -1]
  /\ embeddings = <<>>
  /\ options = NoOptions
  /\ grouping = <<>>

NextDeck == SelectTodayReviewNotes

SpecDeck == InitDeck /\ [][NextDeck]_vars

\* ------------------------------------------- introducing new cards
\* The clusters the new cards may be grouped into: the ids are sessions'
\* cluster ids, the members differ from the order of the notes.
NewCardClusters ==
  {[id |-> 1, noteIds |-> <<2>>, dueCount |-> 0, totalCount |-> 1],
   [id |-> 2, noteIds |-> <<1>>, dueCount |-> 0, totalCount |-> 1],
   [id |-> 2, noteIds |-> <<1, 2>>, dueCount |-> 0, totalCount |-> 2]}

\* Lists of at most two clusters with different ids.
NewCardClusterLists ==
  {<<>>} \cup {<<c>> : c \in NewCardClusters}
         \cup {<<c, d>> : <<c, d>> \in {p \in NewCardClusters \X NewCardClusters :
                                          p[1].id # p[2].id}}

\* Lists of different new cards, in any order.
NewCardLists ==
  UNION {{order \in [1..k -> Notes] :
            \A i, j \in 1..k : i # j => order[i] # order[j]} : k \in 0..NumNotes}

\* The states a manager constructed today is in after at most one new card
\* was marked, a session was started for a cluster and the session was paused.
IntroducingStates ==
  LET fresh == constructor(<<>>, 0)
      marked == {fresh} \cup {markReviewed(fresh, n, TRUE, 0) : n \in Notes}
      started == {startSessionForCluster(sd, c, SetToSeq(D), 0) :
                    sd \in marked, c \in NewCardClusters, D \in SUBSET Notes}
  IN marked \cup started \cup {pauseCurrentSession(sd) : sd \in started}

SelectNewCards ==
  \E order \in NewCardLists, clusters \in NewCardClusterLists :
    /\ call.op = "init"
    /\ ret' = NoteIdsOf(selectNewCardsToIntroduce(sessionData, ItemsOf(order),
                                                  clusters))
    /\ call' = [NoCall EXCEPT
                  !.op = "selectNewCardsToIntroduce",
                  !.before = ItemsOf(order),
                  !.clusters = clusters]
    /\ UNCHANGED <<clusterVars, now, tz, cards, sessionData, pluginVars>>

InitIntroduce ==
  /\ now = 0
  /\ tz = 0
  /\ cards = [n \in Notes |-> NewCard(n)]
  /\ sessionData \in IntroducingStates
  /\ call = NoCall
  /\ ret = <<>>
  /\ disk = NoData
  /\ settings = DEFAULT_SETTINGS
  /\ modal = NoModal
  /\ introducedAt = [n \in Notes |-> -1]
  /\ embeddings = <<>>
  /\ options = NoOptions
  /\ grouping = <<>>

NextIntroduce == SelectNewCards

SpecIntroduce == InitIntroduce /\ [][NextIntroduce]_vars

\* ------------------------------------------------- the plugin's handlers
\* The note groups the clustering service may hand back.
NoteGroups ==
  {<<>>} \cup {<<[id |-> c, noteIds |-> Catalogue(c).noteIds]>> : c \in ClusterIds}

\* startReviewSession: checks that something can be reviewed, then opens the
\* ReviewModal, whose onOpen loads the cards.
StartReviewSession ==
  \E groups \in NoteGroups :
    LET remainingReviews == dailyLimit - Len(sessionData.reviewedTodayIds)
        remainingNewCards == newCardsPerDay - Len(sessionData.newCardsIntroducedIds)
        dueCount == getDueTodayCount(cards, now)
        unintroducedCount == Len(getUnintroducedCards(cards))
        hasAvailableCards ==
          dueCount > 0 \/ (unintroducedCount > 0 /\ remainingNewCards > 0)
        hasRemainingSlots == remainingReviews > 0
        sel == selectTodayReviewCards(sessionData, cards, groups, now)
    IN /\ ~modal.open
       /\ call' = [NoCall EXCEPT !.op = "startReviewSession"]
       /\ ret' = <<>>
       /\ IF ~hasAvailableCards \/ ~hasRemainingSlots
          THEN UNCHANGED <<clusterVars, cards, sessionData, modal, introducedAt>>
          ELSE /\ sessionData' = sel.sd
               /\ cards' = sel.cards
               /\ modal' = [NoModal EXCEPT !.open = TRUE,
                                           !.cards = loadDueCards(sel)]
               /\ introducedAt' =
                    [n \in Notes |-> IF sel.cards[n] # cards[n] THEN now
                                     ELSE introducedAt[n]]
       /\ UNCHANGED <<clusterVars, now, tz, disk, settings>>

\* handleQualityResponse: the user rates the modal's current card.
HandleQualityResponse ==
  \E quality \in ModalQualities :
    /\ modal.open
    /\ modal.pending = <<>>
    /\ modal.currentIndex < Len(modal.cards)
    /\ LET noteId == modal.cards[modal.currentIndex + 1]
           card == cards[noteId]
           newState == calculateNext(card, quality, now)
           updatedCard == WithSM2State(card, newState)
           newLevel == estimateRetentionLevel(updatedCard)
           isNewCard == card.repetition = 0
       IN /\ cards' = [cards EXCEPT
                         ![noteId] = [updatedCard EXCEPT
                                        !.retentionLevel = newLevel,
                                        !.history = Append(@, quality)]]
          /\ sessionData' = markReviewed(sessionData, noteId, isNewCard, now)
          /\ disk' = saveSessionData(disk, sessionData')
          /\ modal' = [modal EXCEPT !.currentIndex = @ + 1,
                                    !.rated = Append(@, noteId)]
          /\ call' = [NoCall EXCEPT
                        !.op = "handleQualityResponse",
                        !.noteId = noteId,
                        !.isNewCard = isNewCard,
                        !.quality = quality]
    /\ ret' = <<>>
    /\ UNCHANGED <<clusterVars, now, tz, settings, introducedAt>>

CloseModal ==
  /\ modal.open
  /\ modal' = NoModal
  /\ call' = [NoCall EXCEPT !.op = "closeModal"]
  /\ ret' = <<>>
  /\ UNCHANGED <<clusterVars, now, tz, cards, sessionData, disk, settings, introducedAt>>

\* The settings tab changes a setting and calls saveSettings.
SaveSettings ==
  \E enabled \in BOOLEAN :
    /\ settings' = [settings EXCEPT !.quizEnabled = enabled]
    /\ disk' = saveSettings(settings')
    /\ call' = [NoCall EXCEPT !.op = "saveSettings"]
    /\ ret' = <<>>
    /\ UNCHANGED <<clusterVars, now, tz, cards, sessionData, modal, introducedAt>>

ResetSettings ==
  /\ settings' = DEFAULT_SETTINGS
  /\ disk' = saveSettings(settings')
  /\ call' = [NoCall EXCEPT !.op = "resetSettings"]
  /\ ret' = <<>>
  /\ UNCHANGED <<clusterVars, now, tz, cards, sessionData, modal, introducedAt>>

\* The plugin is unloaded and loaded again: onunload saves the session data,
\* onload loads the settings, builds the repository cache from the notes and
\* constructs the manager from the stored session data.
Restart ==
  LET data == saveSessionData(disk, sessionData)
  IN /\ disk' = data
     /\ settings' = migrateSettings(data)
     /\ sessionData' = constructor(loadSessionData(data), now)
     /\ cards' = initializeCache(cards)
     /\ modal' = NoModal
     /\ call' = [NoCall EXCEPT
                   !.op = "restart",
                   !.stale = sessionData.lastActiveDate # getTodayString(now)]
     /\ ret' = <<>>
     /\ UNCHANGED <<clusterVars, now, tz, introducedAt>>

InitPlugin ==
  /\ now = 0
  /\ tz = 0
  /\ cards \in {cs \in [Notes -> {DueCard(n) : n \in Notes}
                                   \cup {LaterCard(n) : n \in Notes}
                                   \cup {NewCard(n) : n \in Notes}] :
                  \A n \in Notes : cs[n].noteId = n}
  /\ sessionData = constructor(<<>>, 0)
  /\ call = NoCall
  /\ ret = <<>>
  /\ disk = NoData
  /\ settings = migrateSettings(NoData)
  /\ modal = NoModal
  /\ introducedAt = [n \in Notes |-> -1]
  /\ embeddings = <<>>
  /\ options = NoOptions
  /\ grouping = <<>>

NextPlugin ==
  \/ StartReviewSession
  \/ HandleQualityResponse
  \/ CloseModal
  \/ SaveSettings
  \/ ResetSettings
  \/ Restart
  \/ Tick

SpecPlugin == InitPlugin /\ [][NextPlugin]_vars

\* ------------------------------------- the rating handler, step by step
\* The number of rating handlers in flight at most.
MaxPending == 2

\* A rating button is clicked: handleQualityResponse runs up to its first
\* await.  The card is the one at currentIndex; it is rescheduled in memory
\* and saveCard is started.  The buttons stay in place until a handler has
\* run to its end and rendered again.
ClickQuality ==
  \E quality \in ModalQualities :
    /\ modal.open
    /\ modal.currentIndex < Len(modal.cards)
    /\ Len(modal.pending) < MaxPending
    /\ LET noteId == modal.cards[modal.currentIndex + 1]
           card == cards[noteId]
           newState == calculateNext(card, quality, now)
           updatedCard == WithSM2State(card, newState)
           newLevel == estimateRetentionLevel(updatedCard)
           isNewCard == card.repetition = 0
       IN /\ cards' = [cards EXCEPT
                         ![noteId] = [updatedCard EXCEPT
                                        !.retentionLevel = newLevel,
                                        !.history = Append(@, quality)]]
          /\ modal' = [modal EXCEPT
                         !.rated = Append(@, noteId),
                         !.pending = Append(@, [noteId |-> noteId,
                                                isNewCard |-> isNewCard,
                                                awaits |-> "saveCard"])]
          /\ call' = [NoCall EXCEPT
                        !.op = "clickQuality",
                        !.noteId = noteId,
                        !.isNewCard = isNewCard,
                        !.quality = quality]
    /\ ret' = <<>>
    /\ UNCHANGED <<clusterVars, now, tz, sessionData, disk, settings,
                   introducedAt>>

\* saveCard of a handler in flight resolves: the handler calls markReviewed
\* and starts saveSessionData.
SaveCardResolved ==
  \E i \in 1..Len(modal.pending) :
    /\ modal.pending[i].awaits = "saveCard"
    /\ sessionData' = markReviewed(sessionData, modal.pending[i].noteId,
                                   modal.pending[i].isNewCard, now)
    /\ modal' = [modal EXCEPT !.pending[i].awaits = "saveSessionData"]
    /\ call' = [NoCall EXCEPT !.op = "saveCardResolved",
                              !.noteId = modal.pending[i].noteId]
    /\ ret' = <<>>
    /\ UNCHANGED <<clusterVars, now, tz, cards, disk, settings, introducedAt>>

\* saveSessionData of a handler in flight resolves: the handler moves on to
\* the next card and renders it, or the end of the session.
SaveSessionDataResolved ==
  \E i \in 1..Len(modal.pending) :
    /\ modal.pending[i].awaits = "saveSessionData"
    /\ disk' = saveSessionData(disk, sessionData)
    /\ modal' = [modal EXCEPT
                   !.currentIndex = @ + 1,
                   !.pending = [k \in 1..(Len(modal.pending) - 1) |->
                                  IF k < i THEN modal.pending[k]
                                  ELSE modal.pending[k + 1]]]
    /\ call' = [NoCall EXCEPT !.op = "saveSessionDataResolved",
                              !.noteId = modal.pending[i].noteId]
    /\ ret' = <<>>
    /\ UNCHANGED <<clusterVars, now, tz, cards, sessionData, settings,
                   introducedAt>>

NextModal ==
  \/ StartReviewSession
  \/ ClickQuality
  \/ SaveCardResolved
  \/ SaveSessionDataResolved

SpecModal == InitPlugin /\ [][NextModal]_vars

\* ------------------------------------------------------- the quiz modal
\* The number of ratings in the history of a card a quiz is applied to, at
\* most.
MaxHistory == 3

\* applyResultToReview: the QuizModal of a note applies the rating its quiz
\* arrived at; the card is rescheduled and saved, the modal closes.  The
\* QuizModal is opened for the active note by generateQuizForNote, or from
\* the ReviewModal, which closes itself first.
ApplyResultToReview ==
  \E noteId \in Notes, quality \in ModalQualities :
    /\ ~modal.open
    /\ settings.quizEnabled
    /\ Len(cards[noteId].history) < MaxHistory
    /\ LET card == cards[noteId]
           newState == calculateNext(card, quality, now)
           updatedCard == WithSM2State(card, newState)
           newLevel == estimateRetentionLevel(updatedCard)
       IN /\ cards' = [cards EXCEPT
                         ![noteId] = [updatedCard EXCEPT
                                        !.retentionLevel = newLevel,
                                        !.history = Append(@, quality)]]
          /\ call' = [NoCall EXCEPT
                        !.op = "applyResultToReview",
                        !.noteId = noteId,
                        !.quality = quality,
                        !.before = <<card>>]
    /\ ret' = <<>>
    /\ UNCHANGED <<clusterVars, now, tz, sessionData, pluginVars>>

NextQuiz ==
  \/ StartReviewSession
  \/ HandleQualityResponse
  \/ CloseModal
  \/ ApplyResultToReview

SpecQuiz == InitPlugin /\ [][NextQuiz]_vars

\* ---------------------------------------------------- the daily loop
\* A caller asks selectTodayReviewNotes for the day's notes, marks every
\* note returned as reviewed and asks again, until nothing is returned.  The
\* cards and the clusters stay as they are; call.clusters holds the clusters
\* the caller passes in every round.
LoopSelect ==
  /\ call.op \in {"loop", "markReviewed"}
  /\ ret = <<>>
  /\ LET r == selectTodayReviewNotes(sessionData, getAllCards(cards),
                                     call.clusters, now)
     IN /\ sessionData' = r.sd
        /\ ret' = NoteIdsOf(r.out)
        /\ call' = [NoCall EXCEPT
                      !.op = "selectTodayReviewNotes",
                      !.notes = Notes,
                      !.clusters = call.clusters,
                      !.started = HasSession(r.sd)
                                  /\ r.sd.currentSession
                                       # sessionData.currentSession]
  /\ UNCHANGED <<clusterVars, now, tz, cards, pluginVars>>

LoopMarkReviewed ==
  \E isNewCard \in BOOLEAN :
    /\ call.op \in {"selectTodayReviewNotes", "markReviewed"}
    /\ ret # <<>>
    /\ sessionData' = markReviewed(sessionData, Head(ret), isNewCard, now)
    /\ ret' = Tail(ret)
    /\ call' = [NoCall EXCEPT
                  !.op = "markReviewed",
                  !.noteId = Head(ret),
                  !.isNewCard = isNewCard,
                  !.clusters = call.clusters]
    /\ UNCHANGED <<clusterVars, now, tz, cards, pluginVars>>

\* The loop starts with a manager constructed today, with or without a
\* session started for a cluster.
InitLoop ==
  /\ now \in {0, MaxTime}
  /\ tz = 0
  /\ cards \in {cs \in [Notes -> {DueCard(n) : n \in Notes}
                                   \cup {LaterCard(n) : n \in Notes}
                                   \cup {NewCard(n) : n \in Notes}] :
                  \A n \in Notes : cs[n].noteId = n}
  /\ sessionData \in
       {constructor(<<>>, now)}
         \cup {startSessionForCluster(constructor(<<>>, now), Catalogue(c),
                                      SetToSeq(D), now) :
                 c \in ClusterIds, D \in SUBSET Notes}
  /\ \E clusters \in ClusterLists :
       call = [NoCall EXCEPT !.op = "loop", !.clusters = clusters]
  /\ ret = <<>>
  /\ disk = NoData
  /\ settings = DEFAULT_SETTINGS
  /\ modal = NoModal
  /\ introducedAt = [n \in Notes |-> -1]
  /\ embeddings = <<>>
  /\ options = NoOptions
  /\ grouping = <<>>

NextLoop == LoopSelect \/ LoopMarkReviewed

\* The caller goes on with the loop as long as it has a step to take.
SpecLoop == InitLoop /\ [][NextLoop]_vars /\ WF_vars(NextLoop)

\* ------------------------------------- clustering anew for every selection
\* The notes of the vault: enough for two clusters of minClusterSize notes.
NumRotationNotes == 6

\* The number of group ids handed out at most.
MaxGroupIds == 4

\* The embeddings of the vault: the first three notes share one vector, the
\* others another, and the two are less similar than the threshold.
RotationEmbeddings ==
  [n \in 1..NumRotationNotes |-> IF n <= 3 THEN <<8, 1>> ELSE <<1, 8>>]

\* The options selectTodayReviewCards hands to cluster: the default
\* similarityThreshold 0.7 in units of 1/SimScale, and maxGroupSize 20.
RotationOptions == [threshold |-> 45, maxGroupSize |-> 20]

\* The id the last createNoteGroup gave out; ids are never given out twice
\* (crypto.randomUUID), the model numbers them in the order of their creation.
LastGroupId ==
  IF grouping = <<>> \/ grouping[1].groups = <<>> THEN 0
  ELSE grouping[1].groups[Len(grouping[1].groups)].id

\* The groups of a clustering result with the ids createNoteGroup gives them.
createNoteGroups(result, lastId) ==
  [result EXCEPT
     !.groups = [g \in 1..Len(result.groups) |->
                   [id |-> lastId + g,
                    noteIds |-> result.groups[g].noteIds,
                    cohesion |-> result.groups[g].cohesion]]]

\* selectTodayReviewCards of the plugin on the whole vault: the notes are
\* clustered, the groups converted to clusters, the review notes selected,
\* the new cards selected and introduced.
SelectTodayReviewCards ==
  LET allCards == [k \in 1..NumRotationNotes |-> cards[k]]
      result == createNoteGroups(cluster(NotesWithVector(embeddings), options),
                                 LastGroupId)
      dueCards == SelectSeq(allCards, LAMBDA c : c.nextReview <= TodayEnd(now))
      clusters == convertToNoteClusters(result.groups, dueCards)
      r == selectTodayReviewNotes(sessionData, allCards, clusters, now)
      unintroduced ==
        SelectSeq(allCards,
                  LAMBDA c : c.repetition = 0 /\ IsFarFuture(c.nextReview))
      newCardsToIntroduce ==
        NoteIdsOf(selectNewCardsToIntroduce(r.sd, unintroduced, clusters))
  IN /\ LastGroupId < MaxGroupIds
     /\ LastGroupId + Len(result.groups) <= MaxGroupIds
     /\ grouping' = <<result>>
     /\ sessionData' = r.sd
     /\ cards' = introduceAll(cards, newCardsToIntroduce, now)
     /\ introducedAt' = [n \in Notes |-> IF cards'[n] # cards[n] THEN now
                                         ELSE introducedAt[n]]
     /\ ret' = NoteIdsOf(r.out)
     /\ call' = [NoCall EXCEPT
                   !.op = "selectTodayReviewCards",
                   !.clusters = clusters,
                   !.started = HasSession(r.sd)
                               /\ r.sd.currentSession # sessionData.currentSession,
                   !.completed = IF r.sd.clusterLastReviewed
                                      # sessionData.clusterLastReviewed
                                 THEN sessionData.currentSession ELSE <<>>]
     /\ UNCHANGED <<now, tz, disk, settings, modal, embeddings, options>>

\* The first of the cards returned is rated in the ReviewModal.
RateReturnedCard ==
  \E quality \in ModalQualities :
    /\ call.op \in {"selectTodayReviewCards", "handleQualityResponse"}
    /\ ret # <<>>
    /\ LET noteId == Head(ret)
           card == cards[noteId]
           newState == calculateNext(card, quality, now)
           updatedCard == WithSM2State(card, newState)
           newLevel == estimateRetentionLevel(updatedCard)
           isNewCard == card.repetition = 0
       IN /\ cards' = [cards EXCEPT
                         ![noteId] = [updatedCard EXCEPT
                                        !.retentionLevel = newLevel,
                                        !.history = Append(@, quality)]]
          /\ sessionData' = markReviewed(sessionData, noteId, isNewCard, now)
          /\ disk' = saveSessionData(disk, sessionData')
          /\ call' = [NoCall EXCEPT
                        !.op = "handleQualityResponse",
                        !.noteId = noteId,
                        !.isNewCard = isNewCard,
                        !.quality = quality]
    /\ ret' = Tail(ret)
    /\ UNCHANGED <<clusterVars, now, tz, settings, modal, introducedAt>>

\* A vault and a manager constructed today.  In the first cluster one note
\* was never introduced, one is due and one is due another day; in the other
\* the first note is due or was never introduced.
InitRotation ==
  /\ now = 0
  /\ tz = 0
  /\ \E introduced \in BOOLEAN :
       cards = [n \in 1..NumRotationNotes |->
                  IF n % 3 = 0 THEN LaterCard(n)
                  ELSE IF n = 2 \/ (n = 4 /\ introduced) THEN DueCard(n)
                  ELSE NewCard(n)]
  /\ sessionData = constructor(<<>>, now)
  /\ call = NoCall
  /\ ret = <<>>
  /\ disk = NoData
  /\ settings = DEFAULT_SETTINGS
  /\ modal = NoModal
  /\ introducedAt = [n \in Notes |-> -1]
  /\ embeddings = RotationEmbeddings
  /\ options = RotationOptions
  /\ grouping = <<>>

NextRotation ==
  \/ SelectTodayReviewCards
  \/ RateReturnedCard
  \/ ApplyResultToReview

SpecRotation == InitRotation /\ [][NextRotation]_vars

\* ------------------------------------------- the manager in a time zone
\* A manager constructed at any instant of any time zone, asked for the
\* notes of the day.
InitZone ==
  /\ now \in 0..MaxTime
  /\ tz \in TZs
  /\ cards = [n \in Notes |-> IF n = 1 THEN LaterCard(n) ELSE DueCard(n)]
  /\ sessionData = constructor(<<>>, now)
  /\ call = NoCall
  /\ ret = <<>>
  /\ disk = NoData
  /\ settings = DEFAULT_SETTINGS
  /\ modal = NoModal
  /\ introducedAt = [n \in Notes |-> -1]
  /\ embeddings = <<>>
  /\ options = NoOptions
  /\ grouping = <<>>

NextZone == Reload \/ SelectTodayReviewNotes \/ MarkReviewed

SpecZone == InitZone /\ [][NextZone]_vars

\* ================================================================ claims
\* The number of times x occurs in the list s.
Count(s, x) == Cardinality({i \in 1..Len(s) : s[i] = x})

\* A card of the cache is due today and not yet reviewed today.
DueUnreviewed(n) ==
  /\ cards[n].nextReview <= TodayEnd(now)
  /\ ~Includes(sessionData.reviewedTodayIds, n)

\* The notes introduceNewCard introduced on UTC day d.
IntroducedOn(d) ==
  {n \in Notes : introducedAt[n] >= 0 /\ UtcDay(introducedAt[n]) = d}

\* C1: after every operation, the number of ids in reviewedTodayIds is at
\* most dailyLimit.
C1_ReviewedWithinDailyLimit ==
  Len(sessionData.reviewedTodayIds) <= dailyLimit

\* C2: after every operation, the number of ids in newCardsIntroducedIds is
\* at most newCardsPerDay.
C2_NewCardsWithinLimit ==
  Len(sessionData.newCardsIntroducedIds) <= newCardsPerDay

\* C3: on every day, however often the plugin's selectTodayReviewCards runs,
\* the number of distinct cards introduceNewCard moved from the far-future
\* date to today is at most newCardsPerDay.
C3_IntroducedWithinLimit ==
  \A d \in 0..UtcDay(MaxTime) : Cardinality(IntroducedOn(d)) <= newCardsPerDay

\* C6: once session data is stored under the session-data key of data.json,
\* a step that is not a saveSessionData (handleQualityResponse and onunload
\* call it) leaves the stored session data as it is; saveSettings and
\* resetSettings are such steps.
C6_SessionDataKeptOnDisk ==
  [][(disk.session # <<>> /\ ~(HandleQualityResponse \/ Restart))
       => disk'.session = disk.session]_vars

\* C4: in every state of the manager and for every list of cards and of
\* clusters passed in, selectTodayReviewNotes returns at most
\* max(0, dailyLimit - |reviewedTodayIds|) cards, each of them due by the end
\* of today and none of them in reviewedTodayIds.
C4_SelectWithinSlots ==
  \A S \in SUBSET Notes, clusters \in ClusterLists :
    LET out == selectTodayReviewNotes(sessionData, CardsOf(S), clusters, now).out
    IN /\ Len(out) <= Max(0, dailyLimit - Len(sessionData.reviewedTodayIds))
       /\ \A i \in 1..Len(out) :
            /\ out[i].nextReview <= TodayEnd(now)
            /\ ~Includes(sessionData.reviewedTodayIds, out[i].noteId)

\* selectTodayReviewNotes has returned fewer cards than the due, unreviewed
\* cards it was given, because the remaining slots ran out.
C4_Witness ==
  /\ call.op = "selectTodayReviewNotes"
  /\ Len(ret) = dailyLimit
  /\ Cardinality({n \in call.notes : DueUnreviewed(n)}) > Len(ret)

\* C5: a manager constructed from persisted data whose lastActiveDate is
\* today uses the data unchanged; one constructed from data with another date
\* empties reviewedTodayIds and newCardsIntroducedIds, sets lastActiveDate to
\* today and carries currentSession and clusterLastReviewed over; one
\* constructed without data starts empty with lastActiveDate today.
C5_ConstructorRollover ==
  [][/\ Reload =>
          IF sessionData.lastActiveDate = UtcDay(now)
          THEN sessionData' = sessionData
          ELSE /\ sessionData'.reviewedTodayIds = <<>>
               /\ sessionData'.newCardsIntroducedIds = <<>>
               /\ sessionData'.lastActiveDate = UtcDay(now)
               /\ sessionData'.currentSession = sessionData.currentSession
               /\ sessionData'.clusterLastReviewed = sessionData.clusterLastReviewed
     /\ Construct =>
          /\ sessionData'.reviewedTodayIds = <<>>
          /\ sessionData'.newCardsIntroducedIds = <<>>
          /\ sessionData'.lastActiveDate = UtcDay(now)
          /\ sessionData'.currentSession = NoSession
          /\ sessionData'.clusterLastReviewed = NoEntries]_vars

\* A manager has been constructed from data of an earlier day: the daily
\* lists are empty, and a session that was reviewed in on that day and a
\* clusterLastReviewed entry are still there.
C5_Witness ==
  /\ call.op = "reload"
  /\ call.stale
  /\ sessionData.reviewedTodayIds = <<>>
  /\ HasSession(sessionData)
  /\ Session(sessionData).reviewedTodayIds # <<>>
  /\ DOMAIN sessionData.clusterLastReviewed # {}

\* The manager's data with the session's lastActiveAt blanked.
IgnoringLastActiveAt(sd) ==
  IF HasSession(sd)
  THEN [sd EXCEPT !.currentSession = <<[Session(sd) EXCEPT !.lastActiveAt = 0]>>]
  ELSE sd

\* C7: in every state of the manager, for every note id and flag, calling
\* markReviewed a second time (at the same or a later instant) leaves
\* reviewedTodayIds, newCardsIntroducedIds, currentSession (but for
\* lastActiveAt) and clusterLastReviewed as the first call left them, and the
\* id is listed once.
C7_MarkReviewedIdempotent ==
  \A noteId \in Notes, isNewCard \in BOOLEAN, t2 \in now..MaxTime :
    LET once == markReviewed(sessionData, noteId, isNewCard, now)
        twice == markReviewed(once, noteId, isNewCard, t2)
    IN /\ IgnoringLastActiveAt(twice) = IgnoringLastActiveAt(once)
       /\ Count(twice.reviewedTodayIds, noteId) = 1
       /\ Count(twice.newCardsIntroducedIds, noteId) <= 1

\* markReviewed has been called twice in a row for the same new card while a
\* session that still has notes left was open.
C7_Witness ==
  /\ call.op = "markReviewed"
  /\ call.again
  /\ call.isNewCard
  /\ HasSession(sessionData)
  /\ Includes(Session(sessionData).reviewedTodayIds, call.noteId)

\* C8: a session's status changes only from active to completed, from active
\* to paused and from paused to active: the session an operation completes
\* was active, a session that stays current never changes status otherwise,
\* and no current session is a completed one.
C8_StatusTransitions ==
  [][/\ call'.completed # <<>> => call'.completed[1].status = "active"
     /\ HasSession(sessionData') => Session(sessionData').status # "completed"
     /\ (HasSession(sessionData) /\ HasSession(sessionData') /\ ~call'.started) =>
          \/ Session(sessionData').status = Session(sessionData).status
          \/ /\ Session(sessionData).status = "active"
             /\ Session(sessionData').status = "paused"
          \/ /\ Session(sessionData).status = "paused"
             /\ Session(sessionData').status = "active"]_vars

\* The session that the last operation completed, before it was discarded.
CompletedSession == call.completed[1]

C10_FailureResets ==
  \A n \in Notes, quality \in 0..2 :
    LET st == calculateNext(cards[n], quality, now)
    IN /\ st.repetition = 0
       /\ st.interval = 1
       /\ st.easeFactor = (IF cards[n].easeFactor - 20 > 130
                           THEN cards[n].easeFactor - 20 ELSE 130)
       /\ LocalDay(st.nextReview) = LocalDay(now) + 1

\* A card with repetitions behind it and an ease factor less than 0.2 above
\* the floor has been rated below 3.
C10_Witness ==
  /\ call.op = "calculateNext"
  /\ call.quality < 3
  /\ call.before[1].repetition > 0
  /\ call.before[1].easeFactor < 150
  /\ cards[call.noteId].repetition = 0
  /\ cards[call.noteId].easeFactor = 130

\* C11: for every card and every quality in 0..5, the ease factor
\* calculateNext returns is at least 1.3.
C11_EaseFactorFloor ==
  \A n \in Notes, quality \in Qualities :
    calculateNext(cards[n], quality, now).easeFactor >= 130

\* A card whose ease factor is less than 0.14 above the floor has been rated
\* 3, and the floor held the result at 1.3.
C11_Witness ==
  /\ call.op = "calculateNext"
  /\ call.quality = 3
  /\ call.before[1].easeFactor < 144
  /\ cards[call.noteId].easeFactor = 130

\* The change of the ease factor on a success: 0.1 - (5-q)(0.08 + (5-q)0.02).
EaseDelta(quality) ==
  CASE quality = 5 -> 10
    [] quality = 4 -> 0
    [] quality = 3 -> -14

\* C12: for every card and every quality in {3, 4, 5}, calculateNext returns
\* interval 1 if the repetition was 0, 6 if it was 1, otherwise the interval
\* times the previous ease factor, rounded; repetition one more than before;
\* ease factor max(1.3, previous + 0.1 - (5-q)(0.08 + (5-q)0.02)); and a
\* nextReview that many days after today.
C12_SuccessAdvances ==
  \A n \in Notes, quality \in 3..5 :
    LET c == cards[n]
        st == calculateNext(c, quality, now)
        product == c.interval * c.easeFactor
    IN /\ c.repetition = 0 => st.interval = 1
       /\ c.repetition = 1 => st.interval = 6
       /\ c.repetition > 1 =>
            /\ 100 * st.interval - 50 <= product
            /\ product < 100 * st.interval + 50
       /\ st.repetition = c.repetition + 1
       /\ st.easeFactor = (IF c.easeFactor + EaseDelta(quality) > 130
                           THEN c.easeFactor + EaseDelta(quality) ELSE 130)
       /\ LocalDay(st.nextReview) = LocalDay(now) + st.interval

\* The card with repetition 2, interval 6 and ease factor 2.5 has been rated
\* 4 and has interval 15, ease factor 2.5 and repetition 3.
C12_Witness ==
  /\ call.op = "calculateNext"
  /\ call.quality = 4
  /\ call.before[1].repetition = 2
  /\ call.before[1].interval = 6
  /\ call.before[1].easeFactor = 250
  /\ cards[call.noteId].interval = 15
  /\ cards[call.noteId].easeFactor = 250
  /\ cards[call.noteId].repetition = 3

\* C13: starting from the default state of a card, after any sequence of
\* calculateNext with qualities in 0..5 the ease factor is between 1.3 and
\* 2.5, the range the scheduler documents.
C13_EaseFactorInDocumentedRange ==
  \A n \in Notes : cards[n].easeFactor >= 130 /\ cards[n].easeFactor <= 250

\* The position of card c in the list cs.
PositionIn(cs, c) == CHOOSE i \in 1..Len(cs) : cs[i] = c

\* out holds exactly the cards of items that satisfy keep, in the order of
\* items.  keep[i] tells whether items[i] is to be kept.
ExactlyInOrder(out, items, keep) ==
  /\ \A i \in 1..Len(items) :
       keep[i] <=> (\E k \in 1..Len(out) : out[k] = items[i])
  /\ \A k \in 1..Len(out) : \E i \in 1..Len(items) : items[i] = out[k]
  /\ \A k, l \in 1..Len(out) :
       k < l => PositionIn(items, out[k]) < PositionIn(items, out[l])

\* The instants of the model.
Instants == (0 - 4 * TicksPerDay)..(MaxTime + 2 * TicksPerDay)

\* cs with the review instant of every card replaced by the instant
\* delta earlier or later, when that is on the same calendar day.
SameDayShift(cs, delta) ==
  [i \in 1..Len(cs) |->
     IF LocalDay(cs[i].nextReview + delta) = LocalDay(cs[i].nextReview)
     THEN [cs[i] EXCEPT !.nextReview = @ + delta]
     ELSE cs[i]]

\* C14: getDueCards(items, d) returns exactly the items whose calendar day of
\* review is the calendar day of d or earlier, getOverdueCards(items, d)
\* exactly those whose day of review is before the day preceding that of d;
\* the time of day of either date does not change the result and the order
\* of the input is kept.
C14_DueAndOverdueByCalendarDay ==
  /\ call.op = "getDueCards" =>
       /\ ExactlyInOrder(ret[1], call.before,
            [i \in 1..Len(call.before) |->
               LocalDay(call.before[i].nextReview) <= LocalDay(now)])
       /\ \A d \in Instants :
            LocalDay(d) = LocalDay(now) =>
              getDueCards(call.before, d) = ret[1]
       /\ \A delta \in (1 - TicksPerDay)..(TicksPerDay - 1) :
            NoteIdsOf(getDueCards(SameDayShift(call.before, delta), now))
              = NoteIdsOf(ret[1])
  /\ call.op = "getOverdueCards" =>
       /\ ExactlyInOrder(ret[1], call.before,
            [i \in 1..Len(call.before) |->
               LocalDay(call.before[i].nextReview) < LocalDay(now) - 1])
       /\ \A d \in Instants :
            LocalDay(d) = LocalDay(now) =>
              getOverdueCards(call.before, d) = ret[1]
       /\ \A delta \in (1 - TicksPerDay)..(TicksPerDay - 1) :
            NoteIdsOf(getOverdueCards(SameDayShift(call.before, delta), now))
              = NoteIdsOf(ret[1])

\* getOverdueCards has left out a card due yesterday and kept, after it in
\* the input, a card due earlier; getDueCards would keep both.
C14_Witness ==
  /\ call.op = "getOverdueCards"
  /\ Len(call.before) = 2
  /\ LocalDay(call.before[1].nextReview) = LocalDay(now) - 1
  /\ LocalDay(call.before[2].nextReview) < LocalDay(now) - 1
  /\ NoteIdsOf(ret[1]) = <<call.before[2].noteId>>
  /\ Len(getDueCards(call.before, now)) = 2

\* Overdue as getOverdueCards has it: the day of review is before yesterday.
OverdueDay(c) == LocalDay(c.nextReview) < LocalDay(now) - 1

\* C15: in the output of optimizeReviewOrder every overdue card (day of
\* review before yesterday) precedes every card that is not overdue; within
\* each of the two blocks the cards are ordered by retention level ascending,
\* then ease factor ascending; the output is a permutation of the input.
C15_OverdueFirst ==
  call.op = "optimizeReviewOrder" =>
    LET out == ret[1]
    IN /\ Len(out) = Len(call.before)
       /\ \A i \in 1..Len(call.before) :
            \E k \in 1..Len(out) : out[k] = call.before[i]
       /\ \A k, l \in 1..Len(out) :
            k < l =>
              /\ ~(OverdueDay(out[l]) /\ ~OverdueDay(out[k]))
              /\ OverdueDay(out[k]) = OverdueDay(out[l]) =>
                   \/ out[k].retentionLevel < out[l].retentionLevel
                   \/ /\ out[k].retentionLevel = out[l].retentionLevel
                      /\ out[k].easeFactor <= out[l].easeFactor

\* The total of the last (at most five) qualities of a history.
RecentTotal(h) ==
  LET k == IF Len(h) < 5 THEN Len(h) ELSE 5
  IN SumSeq([i \in 1..k |-> h[Len(h) - k + i]])

\* The number of qualities that total is taken over.
RecentCount(h) == IF Len(h) < 5 THEN Len(h) ELSE 5

\* C16: estimateRetentionLevel returns novice for a card without history;
\* otherwise, with avg the mean of the last (at most 5) qualities, the first
\* that applies of mastered (repetition >= 5, ease factor >= 2.3, interval
\* >= 30, avg >= 4), advanced (repetition >= 4, ease factor >= 2.0, interval
\* >= 14, avg >= 3.5), intermediate (repetition >= 2, ease factor >= 1.8,
\* avg >= 3), learning (repetition >= 1 or at least 2 reviews), else novice.
C16_RetentionLevels ==
  call.op = "estimateRetentionLevel" =>
    LET c == call.before[1]
        level == cards[call.noteId].retentionLevel
        total == RecentTotal(c.history)
        count == RecentCount(c.history)
        mastered == /\ c.repetition >= 5 /\ c.easeFactor >= 230
                    /\ c.interval >= 30 /\ total >= 4 * count
        advanced == /\ c.repetition >= 4 /\ c.easeFactor >= 200
                    /\ c.interval >= 14 /\ 10 * total >= 35 * count
        intermediate == /\ c.repetition >= 2 /\ c.easeFactor >= 180
                        /\ total >= 3 * count
        learning == c.repetition >= 1 \/ Len(c.history) >= 2
    IN /\ c.history = <<>> => level = 0
       /\ c.history # <<>> =>
            /\ level = 4 <=> mastered
            /\ level = 3 <=> ~mastered /\ advanced
            /\ level = 2 <=> ~mastered /\ ~advanced /\ intermediate
            /\ level = 1 <=> ~mastered /\ ~advanced /\ ~intermediate
                             /\ learning
            /\ level = 0 <=> ~mastered /\ ~advanced /\ ~intermediate
                             /\ ~learning

\* A card with six reviews whose first was a failure has been estimated as
\* mastered: only the last five count.
C16_Witness ==
  /\ call.op = "estimateRetentionLevel"
  /\ Len(call.before[1].history) > 5
  /\ call.before[1].history[1] = 0
  /\ cards[call.noteId].retentionLevel = 4

\* The ids of the notes handed to cluster.
InputIds == {i \in 1..Len(embeddings) : TRUE}

\* The set of the elements of a list.
Elements(s) == {s[i] : i \in 1..Len(s)}

\* C17: no group returned by cluster has more than maxGroupSize members,
\* whatever the notes, the threshold and maxGroupSize.
C17_GroupsWithinMaxGroupSize ==
  grouping # <<>> =>
    \A g \in 1..Len(grouping[1].groups) :
      Len(grouping[1].groups[g].noteIds) <= options.maxGroupSize

\* cluster has returned a group of exactly maxGroupSize members and left a
\* note out that was similar enough to join it.
C17_Witness ==
  /\ grouping # <<>>
  /\ options.maxGroupSize = 2
  /\ options.threshold = 16
  /\ embeddings = <<(<<8, 1>>), (<<1, 8>>), (<<-7, 4>>)>>
  /\ Len(grouping[1].groups) = 1
  /\ Len(grouping[1].groups[1].noteIds) = 2
  /\ Len(grouping[1].ungroupedNotes) = 1

\* C18: the result of cluster is a partition of the notes: the groups are
\* pairwise disjoint, each has at least two members, and every note is in
\* exactly one group or in ungroupedNotes; with fewer than two notes there
\* are no groups and every note is in ungroupedNotes.
C18_ResultIsPartition ==
  (grouping # <<>> /\ ~grouping[1].threw) =>
    LET r == grouping[1]
        members(g) == Elements(r.groups[g].noteIds)
        places(id) == Cardinality({g \in 1..Len(r.groups) : id \in members(g)})
                        + Cardinality({i \in 1..Len(r.ungroupedNotes) :
                                         r.ungroupedNotes[i] = id})
    IN /\ \A g \in 1..Len(r.groups) :
            /\ Cardinality(members(g)) >= 2
            /\ Cardinality(members(g)) = Len(r.groups[g].noteIds)
            /\ members(g) \subseteq InputIds
       /\ \A g, h \in 1..Len(r.groups) :
            g # h => members(g) \cap members(h) = {}
       /\ \A id \in InputIds : places(id) = 1
       /\ Elements(r.ungroupedNotes) \subseteq InputIds
       /\ Len(embeddings) < 2 =>
            /\ r.groups = <<>>
            /\ Elements(r.ungroupedNotes) = InputIds

\* cluster has put two of three notes in a group and left the note with the
\* zero vector ungrouped.
C18_Witness ==
  /\ grouping # <<>>
  /\ ~grouping[1].threw
  /\ Len(embeddings) = 3
  /\ Len(grouping[1].groups) = 1
  /\ Len(grouping[1].ungroupedNotes) = 1
  /\ embeddings[grouping[1].ungroupedNotes[1]] = <<0, 0>>

\* The squared length of a vector.
SquaredLength(v) == SumSeq([i \in 1..Len(v) |-> v[i] * v[i]])

\* C19: cosineSimilarity throws exactly when the two vectors differ in
\* dimension; for equal dimensions it returns 0 whenever one of the vectors
\* has norm 0; zero vectors and an empty list of notes handed to cluster
\* give a result, not an error.
C19_ErrorOnlyOnDimensionMismatch ==
  /\ \A i, j \in 1..Len(embeddings) :
       LET a == embeddings[i]
           b == embeddings[j]
       IN /\ cosineSimilarity(a, b).threw <=> Len(a) # Len(b)
          /\ (Len(a) = Len(b) /\ (SquaredLength(a) = 0 \/ SquaredLength(b) = 0))
               => cosineSimilarity(a, b) = Returned(0)
  /\ grouping # <<>> =>
       /\ (\A i, j \in 1..Len(embeddings) :
             Len(embeddings[i]) = Len(embeddings[j]))
            => ~grouping[1].threw
       /\ embeddings = <<>> =>
            grouping[1] = [threw |-> FALSE, groups |-> <<>>,
                           ungroupedNotes |-> <<>>]

\* cluster has returned a result for notes of one dimension that include
\* two zero vectors, which it did not group even at threshold 0.
C19_Witness ==
  /\ grouping # <<>>
  /\ options.threshold = 0
  /\ options.maxGroupSize >= 2
  /\ Len(embeddings) = 3
  /\ embeddings[1] = <<0, 0>>
  /\ embeddings[2] = <<0, 0>>
  /\ embeddings[3] = <<8, 1>>
  /\ ~grouping[1].threw

\* C20: every group returned by cluster has a cohesion between 0 and 1, for
\* every list of notes and every threshold between 0 and 1.
C20_CohesionInUnitRange ==
  (/\ grouping # <<>>
   /\ options.threshold >= 0
   /\ options.threshold <= SimScale) =>
    \A g \in 1..Len(grouping[1].groups) :
      LET cohesion == grouping[1].groups[g].cohesion
      IN /\ cohesion.num >= 0
         /\ cohesion.num <= cohesion.den * SimScale

\* C21: convertToNoteClusters returns, for exactly the groups of at least
\* three members and in the order of the input, a cluster with the id and
\* the members of the group, totalCount the number of members and dueCount
\* the number of members that are due, so dueCount <= totalCount.
C21_ClustersOfLargeGroups ==
  call.op = "convertToNoteClusters" =>
    LET groups == call.clusters
        kept == SetToSeq({i \in 1..Len(groups) : Len(groups[i].noteIds) >= 3})
    IN /\ Len(ret) = Len(kept)
       /\ \A k \in 1..Len(ret) :
            LET g == groups[kept[k]] IN
            /\ ret[k].id = g.id
            /\ ret[k].noteIds = g.noteIds
            /\ ret[k].totalCount = Len(g.noteIds)
            /\ ret[k].dueCount =
                 Cardinality({j \in 1..Len(g.noteIds) :
                                g.noteIds[j] \in call.notes})
            /\ ret[k].dueCount <= ret[k].totalCount

\* A group of two notes and then a group of three were converted; only the
\* second is returned, with two of its three notes due.
C21_Witness ==
  /\ call.op = "convertToNoteClusters"
  /\ Len(call.clusters) = 2
  /\ Len(call.clusters[1].noteIds) = 2
  /\ Len(call.clusters[2].noteIds) = 3
  /\ Len(ret) = 1
  /\ ret[1].id = 2
  /\ ret[1].dueCount = 2

\* out holds the first n (all, if there are fewer) of the distinct items
\* that are to be kept, in the order of items.  keep[i] tells whether
\* items[i] is to be kept.
FirstKept(out, items, keep, n) ==
  LET kept == {i \in 1..Len(items) : keep[i]}
  IN /\ Len(out) = (IF Cardinality(kept) < n THEN Cardinality(kept) ELSE n)
     /\ \A k \in 1..Len(out) : \E i \in kept : items[i] = out[k]
     /\ \A k, l \in 1..Len(out) :
          k < l => PositionIn(items, out[k]) < PositionIn(items, out[l])
     /\ \A i \in kept :
          (\A k \in 1..Len(out) : out[k] # items[i]) =>
            \A k \in 1..Len(out) : PositionIn(items, out[k]) < i

\* The card of note n, when it is among the cards of S, is due today, not
\* yet reviewed today and one of the current session's remaining notes.
SessionDue(S, n) ==
  /\ n \in S
  /\ DueUnreviewed(n)
  /\ Includes(Session(sessionData).remainingNoteIds, n)

\* C22: when slots remain and the current session is active with a remaining
\* note that is due and not yet reviewed today, selectTodayReviewNotes
\* returns only cards of the session's remaining notes, the first ones in
\* the order of the cards passed in, and leaves the manager's data (current
\* session, clusterLastReviewed, the counters) unchanged.
C22_ActiveSessionServedFirst ==
  \A S \in SUBSET Notes, clusters \in ClusterLists :
    (/\ remainingSlots(sessionData) > 0
     /\ IsActive(sessionData)
     /\ \E n \in Notes : SessionDue(S, n)) =>
      LET r == selectTodayReviewNotes(sessionData, CardsOf(S), clusters, now)
          items == CardsOf(S)
      IN /\ \A k \in 1..Len(r.out) :
              Includes(Session(sessionData).remainingNoteIds, r.out[k].noteId)
         /\ FirstKept(r.out, items,
                      [i \in 1..Len(items) |-> SessionDue(S, items[i].noteId)],
                      dailyLimit - Len(sessionData.reviewedTodayIds))
         /\ r.sd = sessionData

\* selectTodayReviewNotes was given two due cards and returned the one that
\* is a remaining note of the active session, not the one that comes first,
\* and the session is as it was.
C22_Witness ==
  /\ call.op = "selectTodayReviewNotes"
  /\ IsActive(sessionData)
  /\ ~call.started
  /\ call.notes = Notes
  /\ \A n \in Notes : DueUnreviewed(n)
  /\ ret = <<2>>
  /\ Session(sessionData).remainingNoteIds = <<2>>

\* C23: when slots remain and the current session is active but none of its
\* remaining notes is due and not yet reviewed, selectTodayReviewNotes
\* completes it: clusterLastReviewed of the session's cluster becomes today,
\* the session is no longer the current one, and the selection goes on as if
\* there had been no session.
C23_StaleSessionCompleted ==
  \A S \in SUBSET Notes, clusters \in ClusterLists :
    (/\ remainingSlots(sessionData) > 0
     /\ IsActive(sessionData)
     /\ ~\E n \in Notes : SessionDue(S, n)) =>
      LET r == selectTodayReviewNotes(sessionData, CardsOf(S), clusters, now)
          clusterId == Session(sessionData).clusterId
          without == [sessionData EXCEPT
                        !.currentSession = NoSession,
                        !.clusterLastReviewed =
                           [c \in DOMAIN @ \cup {clusterId} |->
                              IF c = clusterId THEN UtcDay(now) ELSE @[c]]]
      IN /\ clusterId \in DOMAIN r.sd.clusterLastReviewed
         /\ r.sd.clusterLastReviewed[clusterId] = UtcDay(now)
         /\ r.sd.currentSession # sessionData.currentSession
         /\ r = selectTodayReviewNotes(without, CardsOf(S), clusters, now)

\* selectTodayReviewNotes has completed an active session that still had a
\* remaining note, recorded today for its cluster and started a new session.
C23_Witness ==
  /\ call.op = "selectTodayReviewNotes"
  /\ call.completed # <<>>
  /\ call.completed[1].status = "active"
  /\ call.completed[1].remainingNoteIds # <<>>
  /\ call.completed[1].clusterId \in DOMAIN sessionData.clusterLastReviewed
  /\ sessionData.clusterLastReviewed[call.completed[1].clusterId] = UtcDay(now)
  /\ call.started

\* The number of members of cluster cl whose cards are among those of S, due
\* today and not yet reviewed today: the count startNewSession makes.
DueMembers(cl, S) ==
  Cardinality({n \in Elements(cl.noteIds) : n \in S /\ DueUnreviewed(n)})

\* Cluster a was reviewed longer ago than cluster b according to entries; a
\* cluster without entry was never reviewed.
ReviewedBefore(entries, a, b) ==
  \/ a.id \notin DOMAIN entries /\ b.id \in DOMAIN entries
  \/ /\ a.id \in DOMAIN entries
     /\ b.id \in DOMAIN entries
     /\ entries[a.id] < entries[b.id]

\* C24: when selectTodayReviewNotes starts a new session, the cluster chosen
\* has a due member, no cluster with a due member was reviewed longer ago
\* (a cluster without clusterLastReviewed entry counts as never reviewed),
\* and no cluster reviewed equally long ago has more due members.  The
\* due members of a cluster are counted among the cards passed in that are
\* due today and not yet reviewed today.
C24_OldestClusterThenMostDue ==
  \A S \in SUBSET Notes, clusters \in ClusterLists :
    LET r == selectTodayReviewNotes(sessionData, CardsOf(S), clusters, now)
        entries == r.sd.clusterLastReviewed
    IN (HasSession(r.sd) /\ r.sd.currentSession # sessionData.currentSession) =>
         \E i \in 1..Len(clusters) :
           LET chosen == clusters[i] IN
           /\ Session(r.sd).clusterId = chosen.id
           /\ DueMembers(chosen, S) > 0
           /\ \A j \in 1..Len(clusters) :
                DueMembers(clusters[j], S) > 0 =>
                  /\ ~ReviewedBefore(entries, clusters[j], chosen)
                  /\ ~ReviewedBefore(entries, chosen, clusters[j]) =>
                       DueMembers(clusters[j], S) <= DueMembers(chosen, S)

\* Two clusters with due notes were offered, the first with more due notes
\* but reviewed today, the second never reviewed: the session was started
\* for the second.
C24_Witness ==
  /\ call.op = "selectTodayReviewNotes"
  /\ call.started
  /\ Len(call.clusters) = 2
  /\ DueMembers(call.clusters[1], call.notes)
       > DueMembers(call.clusters[2], call.notes)
  /\ DueMembers(call.clusters[2], call.notes) > 0
  /\ call.clusters[1].id \in DOMAIN sessionData.clusterLastReviewed
  /\ call.clusters[2].id \notin DOMAIN sessionData.clusterLastReviewed
  /\ Session(sessionData).clusterId = call.clusters[2].id

\* The ids of the list ids that are members of cluster cl, in the order of
\* ids, are the list remaining.
MembersAmong(remaining, ids, cl) ==
  /\ \A k \in 1..Len(remaining) :
       remaining[k] \in Elements(cl.noteIds) \cap Elements(ids)
  /\ \A n \in Elements(cl.noteIds) \cap Elements(ids) :
       \E k \in 1..Len(remaining) : remaining[k] = n
  /\ Len(remaining) = Cardinality(Elements(cl.noteIds) \cap Elements(ids))
  /\ \A k, l \in 1..Len(remaining) :
       k < l => (CHOOSE i \in 1..Len(ids) : ids[i] = remaining[k])
                  < (CHOOSE i \in 1..Len(ids) : ids[i] = remaining[l])

\* C25: a session installed by startSessionForCluster or started by
\* selectTodayReviewNotes is active, its noteIds are the members of the
\* cluster and its remainingNoteIds the due ids that are members of the
\* cluster; and the remainingNoteIds of the current session are always among
\* its noteIds.
C25_SessionHoldsClusterMembers ==
  /\ \A c \in ClusterIds, D \in SUBSET Notes :
       LET sd == startSessionForCluster(sessionData, Catalogue(c),
                                        SetToSeq(D), now)
       IN /\ HasSession(sd)
          /\ Session(sd).status = "active"
          /\ Session(sd).noteIds = Catalogue(c).noteIds
          /\ MembersAmong(Session(sd).remainingNoteIds, SetToSeq(D),
                          Catalogue(c))
  /\ \A S \in SUBSET Notes, clusters \in ClusterLists :
       LET r == selectTodayReviewNotes(sessionData, CardsOf(S), clusters, now)
       IN (HasSession(r.sd) /\ r.sd.currentSession # sessionData.currentSession)
            => \E i \in 1..Len(clusters) :
                 /\ Session(r.sd).clusterId = clusters[i].id
                 /\ Session(r.sd).status = "active"
                 /\ Session(r.sd).noteIds = clusters[i].noteIds
                 /\ MembersAmong(Session(r.sd).remainingNoteIds,
                                 SetToSeq({n \in S : DueUnreviewed(n)}),
                                 clusters[i])
  /\ HasSession(sessionData) =>
       Elements(Session(sessionData).remainingNoteIds)
         \subseteq Elements(Session(sessionData).noteIds)

\* A session started for a cluster of two due notes has had one of them
\* reviewed: one note remains of the two.
C25_Witness ==
  /\ call.op = "markReviewed"
  /\ HasSession(sessionData)
  /\ Len(Session(sessionData).noteIds) = 2
  /\ Session(sessionData).reviewedTodayIds = <<call.noteId>>
  /\ Len(Session(sessionData).remainingNoteIds) = 1
  /\ Session(sessionData).remainingNoteIds[1] # call.noteId

\* The cards of S that are due today and not yet reviewed today, in the
\* order of the cards passed in.
DueUnreviewedCards(S) == CardsOf({n \in S : DueUnreviewed(n)})

\* The fall-back case of selectTodayReviewNotes: slots remain, no active
\* session has a remaining note that is due, and no cluster has a member
\* that is due and not yet reviewed.
FallsBack(S, clusters) ==
  /\ remainingSlots(sessionData) > 0
  /\ ~(IsActive(sessionData) /\ \E n \in Notes : SessionDue(S, n))
  /\ \A i \in 1..Len(clusters) : DueMembers(clusters[i], S) = 0

DueFirst(a, b) ==
  \/ a.nextReview < b.nextReview
  \/ a.nextReview = b.nextReview /\ a.easeFactor < b.easeFactor
  \/ /\ a.nextReview = b.nextReview
     /\ a.easeFactor = b.easeFactor
     /\ a.repetition < b.repetition

CandidateIds(items) ==
  SelectSeq(NoteIdsOf(items),
            LAMBDA id : ~Includes(sessionData.newCardsIntroducedIds, id))

\* Note id belongs to the current session's cluster: there is a current
\* session and the cluster with its clusterId, among the clusters passed in,
\* has id as a member.
InSessionCluster(clusters, id) ==
  /\ HasSession(sessionData)
  /\ \E i \in 1..Len(clusters) :
       /\ clusters[i].id = Session(sessionData).clusterId
       /\ Includes(clusters[i].noteIds, id)

\* C27: selectNewCardsToIntroduce returns nothing when newCardsPerDay minus
\* the number of cards introduced today is not positive; otherwise it returns
\* the first that many candidates (the items passed in that were not introduced
\* today), the candidates of the current session's cluster before the others
\* and each part in the order passed in, which is plain input order when there
\* is no current session; the manager's state is left as it was.
C27_NewCardsWithinLimitClusterFirst ==
  [][call'.op = "selectNewCardsToIntroduce" =>
       LET slots == newCardsPerDay - Len(sessionData.newCardsIntroducedIds)
           ids == CandidateIds(call'.before)
           same == SelectSeq(ids, LAMBDA id : InSessionCluster(call'.clusters, id))
           others == SelectSeq(ids, LAMBDA id : ~InSessionCluster(call'.clusters, id))
       IN /\ sessionData' = sessionData
          /\ slots <= 0 => ret' = <<>>
          /\ slots > 0 => ret' = Slice0(same \o others, slots)
          /\ slots > 0 /\ ~HasSession(sessionData) => ret' = Slice0(ids, slots)]_vars

\* Note 2 was returned although note 1 was passed in before it: the current
\* session's cluster holds note 2 only.
C27_Witness ==
  /\ call.op = "selectNewCardsToIntroduce"
  /\ HasSession(sessionData)
  /\ NoteIdsOf(call.before) = <<1, 2>>
  /\ InSessionCluster(call.clusters, 2)
  /\ ~InSessionCluster(call.clusters, 1)
  /\ sessionData.newCardsIntroducedIds = <<>>
  /\ ret = <<2>>

\* The current session is paused.
IsPaused(sd) == HasSession(sd) /\ Session(sd).status = "paused"

\* C28: pauseCurrentSession sets the status of the current session to paused
\* and leaves the session in place with its cluster id and its lists of ids as
\* they were, and the rest of the state with it; while the session is paused
\* selectTodayReviewNotes returns, for any cards and clusters, the list it
\* would return from the same state without a current session.
C28_PausedSessionIsSetAside ==
  /\ HasSession(sessionData) =>
       LET p == pauseCurrentSession(sessionData) IN
       /\ IsPaused(p)
       /\ Session(p).clusterId = Session(sessionData).clusterId
       /\ Session(p).noteIds = Session(sessionData).noteIds
       /\ Session(p).remainingNoteIds = Session(sessionData).remainingNoteIds
       /\ Session(p).reviewedTodayIds = Session(sessionData).reviewedTodayIds
       /\ [p EXCEPT !.currentSession = NoSession]
            = [sessionData EXCEPT !.currentSession = NoSession]
  /\ IsPaused(sessionData) =>
       \A S \in SUBSET Notes, clusters \in ClusterLists :
         selectTodayReviewNotes(sessionData, CardsOf(S), clusters, now).out
           = selectTodayReviewNotes(
               [sessionData EXCEPT !.currentSession = NoSession],
               CardsOf(S), clusters, now).out

\* A session was paused whose remaining note 1 is due; asked for all cards
\* without clusters, selectTodayReviewNotes returns note 2, which is not in
\* the session, and would return note 1 were the session still active.
C28_Witness ==
  /\ call.op = "pauseCurrentSession"
  /\ IsPaused(sessionData)
  /\ Includes(Session(sessionData).remainingNoteIds, 1)
  /\ ~Includes(Session(sessionData).noteIds, 2)
  /\ NoteIdsOf(selectTodayReviewNotes(sessionData, CardsOf(Notes), <<>>,
                                      now).out) = <<2>>
  /\ NoteIdsOf(selectTodayReviewNotes(
       [sessionData EXCEPT
          !.currentSession = <<[Session(sessionData) EXCEPT !.status = "active"]>>],
       CardsOf(Notes), <<>>, now).out) = <<1>>

\* The clusters that survive in the result of cluster: the members of every
\* group, and every ungrouped note on its own.
Surviving ==
  {Elements(grouping[1].groups[g].noteIds) : g \in 1..Len(grouping[1].groups)}
    \cup {{grouping[1].ungroupedNotes[i]} :
            i \in 1..Len(grouping[1].ungroupedNotes)}

\* The single-link similarity of two sets of notes.
SingleLink(A, B) ==
  SetMax({cosineSimilarity(embeddings[a], embeddings[b]).value :
            <<a, b>> \in A \X B})

Similarity(i, j) == cosineSimilarity(embeddings[i], embeddings[j]).value

\* The pairs of notes a first merge may join: two notes fit maxGroupSize,
\* and no pair is more similar.
BestPairs ==
  {p \in InputIds \X InputIds :
     /\ p[1] < p[2]
     /\ \A q \in InputIds \X InputIds :
          q[1] < q[2] => Similarity(q[1], q[2]) <= Similarity(p[1], p[2])}

\* The pair of BestPairs met first when i ascends and, for each i, j ascends.
FirstEncountered ==
  CHOOSE p \in BestPairs :
    \A q \in BestPairs : p[1] < q[1] \/ (p[1] = q[1] /\ p[2] <= q[2])

\* C30: the result of cluster is the one grouping its input and options
\* determine, and ties are broken by encounter order: when the most similar
\* pairs of notes reach the threshold (and are above -1) and two notes fit
\* maxGroupSize, the pair met first, scanning i and then j upwards, is merged
\* first, so its two notes share a group with the lower note id in front.
C30_FirstEncounteredPairMerged ==
  (grouping # <<>> /\ ~grouping[1].threw) =>
    /\ grouping[1] = cluster(NotesWithVector(embeddings), options)
    /\ (/\ Len(embeddings) >= 2
        /\ options.maxGroupSize >= 2
        /\ Similarity(FirstEncountered[1], FirstEncountered[2])
             >= options.threshold
        /\ Similarity(FirstEncountered[1], FirstEncountered[2])
             > 0 - SimScale) =>
         \E g \in 1..Len(grouping[1].groups) :
           LET ids == grouping[1].groups[g].noteIds
           IN \E k, l \in 1..Len(ids) :
                /\ k < l
                /\ ids[k] = FirstEncountered[1]
                /\ ids[l] = FirstEncountered[2]

\* Three notes with the same vector and room for two in a group: all three
\* pairs tie, and cluster has grouped notes 1 and 2 and left note 3 out.
C30_Witness ==
  /\ grouping # <<>>
  /\ ~grouping[1].threw
  /\ Len(embeddings) = 3
  /\ embeddings[1] = embeddings[2]
  /\ embeddings[2] = embeddings[3]
  /\ SquaredLength(embeddings[1]) > 0
  /\ options.maxGroupSize = 2
  /\ options.threshold = 26
  /\ Cardinality(BestPairs) = 3
  /\ Len(grouping[1].groups) = 1
  /\ grouping[1].groups[1].noteIds = <<1, 2>>
  /\ grouping[1].ungroupedNotes = <<3>>

\* C31: a rating is never handled while the handler of an earlier rating
\* still awaits saveCard or saveSessionData, so no card of the modal is
\* rescheduled twice, and when the modal has gone through its cards and no
\* handler is in flight each of its cards was rescheduled exactly once.
C31_RatingsHandledInTurn ==
  /\ Len(modal.pending) <= 1
  /\ \A n \in Notes : Count(modal.rated, n) <= 1
  /\ (/\ modal.open
      /\ modal.pending = <<>>
      /\ modal.currentIndex >= Len(modal.cards)) =>
       \A k \in 1..Len(modal.cards) : Count(modal.rated, modal.cards[k]) = 1

\* C32: whenever a rating has rescheduled and saved a card, in the review
\* modal or by applying a quiz result, the card has been marked reviewed, so
\* it is in reviewedTodayIds.
C32_SavedReviewIsMarked ==
  call.op \in {"handleQualityResponse", "applyResultToReview"} =>
    Includes(sessionData.reviewedTodayIds, call.noteId)

\* The number of cards due by the end of today.
NumDue == Cardinality({n \in Notes : cards[n].nextReview <= TodayEnd(now)})

\* The loop has come to its end: selectTodayReviewNotes returned nothing.
LoopEnded == call.op = "selectTodayReviewNotes" /\ ret = <<>>

MembersOfGroupId(id) ==
  LET groups == grouping[1].groups
  IN groups[((id - 1) % Len(groups)) + 1].noteIds

\* The day the last session for a cluster of these members was completed,
\* Epoch1970 when there was none.
LastCompleted(noteIds) ==
  LET days == {sessionData.clusterLastReviewed[id] :
                 id \in {i \in DOMAIN sessionData.clusterLastReviewed :
                           MembersOfGroupId(i) = noteIds}}
  IN IF days = {} THEN Epoch1970 ELSE SetMax(days)

\* C34: when selectTodayReviewCards starts a session by itself, the cluster
\* it is started for did not have a session completed today while another
\* cluster with due notes had none completed, or one completed on an earlier
\* day.
C34_CompletedClusterNotChosenAgain ==
  (call.op = "selectTodayReviewCards" /\ call.started) =>
    \A i \in 1..Len(call.clusters) :
      LET other == call.clusters[i]
          chosen == Session(sessionData).noteIds
      IN ~(/\ LastCompleted(chosen) = getTodayString(now)
           /\ other.noteIds # chosen
           /\ \E k \in 1..Len(other.noteIds) :
                /\ cards[other.noteIds[k]].nextReview <= TodayEnd(now)
                /\ ~Includes(sessionData.reviewedTodayIds, other.noteIds[k])
           /\ LastCompleted(other.noteIds) < getTodayString(now))

\* C35: the review flow adds an id to newCardsIntroducedIds only when the
\* card it rates had an empty review history; a learned card whose
\* repetition was reset to 0 by a failed review does not use the new-card
\* budget when it is reviewed again.
C35_OnlyUnseenCardsAreNew ==
  [][\A n \in Notes :
       (/\ call'.op = "handleQualityResponse"
        /\ ~Includes(sessionData.newCardsIntroducedIds, n)
        /\ Includes(sessionData'.newCardsIntroducedIds, n))
       => cards[n].history = <<>>]_vars

\* C36: after the rating handler has saved a card, the retentionLevel stored
\* on it is estimateRetentionLevel of the saved card, whose history includes
\* the review just recorded.
C36_StoredLevelIsLevelOfSavedCard ==
  call.op = "handleQualityResponse" =>
    cards[call.noteId].retentionLevel
      = estimateRetentionLevel(cards[call.noteId])

\* C37: the calendar day the manager takes for today (getTodayString, kept
\* in lastActiveDate) is the calendar day whose end selectTodayReviewNotes
\* uses to decide which notes are due, at every instant and in every time
\* zone.
C37_OneNotionOfToday ==
  call.op = "selectTodayReviewNotes" =>
    /\ getTodayString(now) = LocalDay(TodayEnd(now))
    /\ sessionData.lastActiveDate = LocalDay(TodayEnd(now))

\* C38: whenever selectTodayReviewNotes, selectNewCardsToIntroduce or
\* markReviewed runs, lastActiveDate is the current calendar day, so the
\* counters it works with are those of today.
C38_CountersReferToToday ==
  [][(/\ now' = now
      /\ call'.op \in {"selectTodayReviewNotes", "selectNewCardsToIntroduce",
                       "markReviewed"})
     => sessionData.lastActiveDate = getTodayString(now)]_vars

\* C39: a card reached from the default state by calculateNext calls has an
\* interval of at least one day and a nextReview at least one day after the
\* call, so it is not due again on the day it was reviewed.
C39_ReviewedCardNotDueSameDay ==
  call.op = "calculateNext" =>
    /\ cards[call.noteId].interval >= 1
    /\ cards[call.noteId].nextReview >= addDays(now, 1)
    /\ cards[call.noteId].nextReview > TodayEnd(now)
    /\ getDueCards(<<cards[call.noteId]>>, now) = <<>>

\* A learned card was failed, the case with the shortest interval.
C39_Witness ==
  /\ call.op = "calculateNext"
  /\ call.quality < 3
  /\ call.before[1].repetition >= 2
  /\ cards[call.noteId].interval = 1

\* C40: from the default state on, a successful review (quality 3 or more)
\* of a card whose repetition is at least 1 returns an interval strictly
\* greater than the interval the card had.
C40_SuccessLengthensInterval ==
  (/\ call.op = "calculateNext"
   /\ call.quality >= 3
   /\ call.before[1].repetition >= 1)
  => cards[call.noteId].interval > call.before[1].interval

\* A success after the second one, where the interval is multiplied by the
\* ease factor.
C40_Witness ==
  /\ call.op = "calculateNext"
  /\ call.quality >= 3
  /\ call.before[1].repetition >= 2
  /\ cards[call.noteId].interval > 6

====
